---- MODULE Spec2Model ----
(***************************************************************************)
(* Cache-and-synchronisation core of SumireVoxBot:                         *)
(*   src/src/core/cache.py     LRUCache, SettingsCache                     *)
(*   src/src/core/database.py  Database (read-through / write-through,     *)
(*                             LISTEN/NOTIFY handlers, session hooks)      *)
(*                                                                         *)
(* Time is an integer clock `now` (time.time()); several calls may read    *)
(* the same clock value.  An LRUCache's _data is a Python dict, modelled   *)
(* as the sequence of its entries in insertion order (assigning to an      *)
(* existing key keeps its position), because sorted() is stable and ties   *)
(* in last_accessed are broken by that order.                              *)
(* An absent value (Python None, no row) is None.                          *)
(***************************************************************************)
EXTENDS Integers, Sequences, FiniteSets, TLC

\* ------------------------------------------------------------------ bounds
MaxTime == 2
MaxCapacity == 2
MaxTTL == 1

\* capacity and TTL of the four SettingsCache caches (MAX_* and *_TTL of the
\* source, scaled down to the size of the model) and length of the queue of
\* notifications that were delivered but not handled yet
ScaledCapacity == 1
ScaledTTL == 1
MaxPending == 1

None == 0 - 1

\* keys and payloads used to exercise one LRUCache directly
Keys == {1, 2, 3}
Values == {1}

\* identifiers and values of the settings kinds
Guilds == {1, 2}
Users == {1, 2}
Kinds == {"guild_settings", "user_settings", "boost_counts", "dict"}

\* GuildSettings is represented by its validated field max_chars (ge=10, le=500);
\* 5 is what ConfigEditModal.on_submit can store with an unvalidated setattr
SettingsValues == {5, 50, 100}
DefaultMaxChars == 50
\* a user profile is represented by its speaker
Profiles == {1, 2}
DefaultSpeaker == 1
BoostCounts == {0, 1, 2}
\* dictionaries: EmptyDict is {}, the other value a non-empty mapping
EmptyDict == 0
DictValues == {0, 1}

VARIABLES
    now,          \* time.time()
    lru_data,     \* LRUCache._data of the cache exercised directly
    lru_max_size, \* LRUCache._max_size
    lru_ttl,      \* LRUCache._ttl_seconds
    set_at,       \* history: per key, clock value of the latest set/set_sync of a stored key
    accessed_at,  \* history: per key, clock value of the latest successful get or set
    last,         \* history: the operation that ran last, its arguments and its result
    kind,         \* the entity kind a behaviour exercises (the kinds share no state)
    initialized,  \* SettingsCache._initialized
    guild_settings,       \* SettingsCache.guild_settings._data
    user_settings,        \* SettingsCache.user_settings._data
    boost_counts,         \* SettingsCache.boost_counts._data
    dictionaries,         \* SettingsCache.dictionaries._data
    global_dict,          \* SettingsCache._global_dict
    active_voice_guilds,  \* SettingsCache._active_voice_guilds
    db_guild_settings,    \* table guild_settings: guild_id -> settings, None = no row
    db_user_settings,     \* table user_settings: user_id -> profile, None = no row
    db_guild_boosts,      \* table guild_boosts: guild_id -> number of rows
    db_dict,              \* table dict: guild_id -> dict, None = no row
    notifications,        \* settings_change payloads delivered and not handled yet
    global_set,           \* history: the value most recently stored as the global dictionary
    listener_connection,  \* Database._listener_connection: "none", "open" (listening),
                          \* "silent" (connected, add_listener not done) or "closed"
    listener_healthy,     \* Database._listener_healthy
    reconnect_attempts,   \* Database._reconnect_attempts
    cache_version,        \* SettingsCache._cache_version
    shutdown,             \* Database._shutdown
    reconnecting,         \* _keep_listener_alive is inside _reconnect_listener
    boost_txns,           \* open transactions on guild_boosts, per writer
    listener_task,        \* Database._listener_task: "none", "running" or "done"
    resync_pc,            \* where the keep-alive task stands inside _reconnect_listener
    inflight,             \* per coroutine: the id and the value it holds across an await
    handlers,             \* _handle_notification_safe tasks inside _notification_lock
    db_users,             \* table users: user_id -> total_slots, None = no row
    db_boost_rows,        \* table guild_boosts by owner: user_id -> guild_id -> rows
    slot_txns,            \* open transactions of the billing calls, per client
    orphan_connections,   \* listener connections left open that are no longer Database._listener_connection
    queues,               \* Voice.queues[g] of the guild under test: the queued AudioTasks, oldest first
    is_processing,        \* Voice.is_processing[g]
    play_tasks,           \* the play_next tasks of the guild that exist, in creation order
    enqueued,             \* history: number of enqueue_message calls so far
    dequeued              \* history: the AudioTasks in the order queue.get() returned them

lruVars == <<lru_data, lru_max_size, lru_ttl, set_at, accessed_at>>
cacheVars == <<guild_settings, user_settings, boost_counts, dictionaries, global_dict,
               active_voice_guilds>>
dbVars == <<db_guild_settings, db_user_settings, db_guild_boosts, db_dict>>
listenerVars == <<listener_connection, listener_healthy, reconnect_attempts, cache_version,
                  shutdown, reconnecting, boost_txns>>
taskVars == <<resync_pc, inflight, handlers>>
slotVars == <<db_users, db_boost_rows, slot_txns>>
voiceVars == <<queues, is_processing, play_tasks, enqueued, dequeued>>
extVars == <<listener_task, taskVars, slotVars, orphan_connections, voiceVars>>
vars == <<now, lruVars, last, kind, initialized, cacheVars, dbVars, notifications, global_set,
          listenerVars, extVars>>

\* Database.__init__: no listener yet, no open transaction
Writers == {"local", "remote"}

\* an open transaction on guild_boosts: the row change it made to guild g and
\* the COUNT(*) its trigger put in the payload, which sees the committed rows
\* and the transaction's own change (READ COMMITTED)
BoostTxn(g, delta, count) == [guild |-> g, delta |-> delta, count |-> count]

\* the writer has no open transaction
NoTxn == BoostTxn(None, 0, None)

\* the coroutines that hold a value across an await
Calls == {"get", "set", "resync", "load"}

\* a coroutine that is not running
\* todo: the guilds a resync pass has still to fetch; stored (history): the
\* guilds whose dictionary the latest pass has overwritten
NoCall == [id |-> None, value |-> None, todo |-> {}, stored |-> {}]

\* no coroutine is suspended, no handler task exists, no billing row
NoTasks ==
    /\ resync_pc = "idle"
    /\ inflight = [c \in Calls |-> NoCall]
    /\ handlers = <<>>
    /\ db_users = <<>> /\ db_boost_rows = <<>> /\ slot_txns = <<>>
    /\ orphan_connections = 0
    /\ queues = <<>> /\ is_processing = FALSE /\ play_tasks = <<>>
    /\ enqueued = 0 /\ dequeued = <<>>

\* the states of a connection for which is_closed() is False
LiveConnections == {"open", "silent"}

ListenerNotStarted ==
    /\ listener_task = "none"
    /\ NoTasks
    /\ listener_connection = "none"
    /\ listener_healthy = FALSE
    /\ reconnect_attempts = 0
    /\ cache_version = 0
    /\ shutdown = FALSE
    /\ reconnecting = FALSE
    /\ boost_txns = [w \in Writers |-> NoTxn]

\* ---------------------------------------------------------------- CacheEntry
CacheEntry(k, v, t) == [key |-> k, value |-> v, created_at |-> t, last_accessed |-> t]

is_expired(e, ttl_seconds, t) == t - e.created_at > ttl_seconds

\* a touch that also restarts the entry's lifetime
touch_resets_created_at(e, t) == [e EXCEPT !.last_accessed = t, !.created_at = t]

touch(e, t) == [e EXCEPT !.last_accessed = t]

\* ------------------------------------------------------------ dict helpers
HasKey(data, k) == \E i \in 1..Len(data) : data[i].key = k

IndexOf(data, k) == CHOOSE i \in 1..Len(data) : data[i].key = k

KeySet(data) == {data[i].key : i \in 1..Len(data)}

\* del self._data[key] for every key of K
DelKeys(data, K) == SelectSeq(data, LAMBDA e : e.key \notin K)

\* self._data[key] = entry
PutEntry(data, e) ==
    IF HasKey(data, e.key)
    THEN [data EXCEPT ![IndexOf(data, e.key)] = e]
    ELSE Append(data, e)

\* sorted(items, key=last_accessed): stable insertion sort
RECURSIVE InsertSorted(_, _)
InsertSorted(s, e) ==
    IF s = <<>> THEN <<e>>
    ELSE IF e.last_accessed < Head(s).last_accessed
         THEN <<e>> \o s
         ELSE <<Head(s)>> \o InsertSorted(Tail(s), e)

\* the entries left in insertion order instead of access order
SortedByInsertion(s) == s

RECURSIVE SortedByLastAccessed(_)
SortedByLastAccessed(s) ==
    IF s = <<>> THEN <<>>
    ELSE InsertSorted(SortedByLastAccessed(SubSeq(s, 1, Len(s) - 1)), s[Len(s)])

\* ------------------------------------------------------------------ LRUCache
\* entries removed first because they are expired
ExpiredKeys(data, ttl_seconds, t) ==
    {data[i].key : i \in {j \in 1..Len(data) : is_expired(data[j], ttl_seconds, t)}}

\* eviction that stops after dropping the expired entries
evict_expired_only(data, max_size, ttl_seconds, t) ==
    IF Len(data) <= max_size THEN data
    ELSE DelKeys(data, ExpiredKeys(data, ttl_seconds, t))

\* eviction that picks by access order among all entries, then drops the expired
evict_lru_first(data, max_size, ttl_seconds, t) ==
    IF Len(data) <= max_size THEN data
    ELSE LET sorted_items == SortedByLastAccessed(data)
             items_to_remove == Len(data) - max_size
             kept == DelKeys(data, {sorted_items[i].key : i \in 1..items_to_remove})
         IN  DelKeys(kept, ExpiredKeys(kept, ttl_seconds, t))

evict_if_needed(data, max_size, ttl_seconds, t) ==
    IF Len(data) <= max_size THEN data
    ELSE LET live == DelKeys(data, ExpiredKeys(data, ttl_seconds, t))
         IN  IF Len(live) > max_size
             THEN LET sorted_items == SortedByLastAccessed(live)
                      items_to_remove == Len(live) - max_size
                  IN  DelKeys(live, {sorted_items[i].key : i \in 1..items_to_remove})
             ELSE live

\* LRUCache.get: the value returned, and the dict afterwards
lru_get_value(data, k, ttl_seconds, t) ==
    IF ~HasKey(data, k) THEN None
    ELSE IF is_expired(data[IndexOf(data, k)], ttl_seconds, t) THEN None
    ELSE data[IndexOf(data, k)].value

lru_get_data(data, k, ttl_seconds, t) ==
    IF ~HasKey(data, k) THEN data
    ELSE IF is_expired(data[IndexOf(data, k)], ttl_seconds, t) THEN DelKeys(data, {k})
    ELSE [data EXCEPT ![IndexOf(data, k)] = touch(@, t)]

\* LRUCache.get_sync: an expired entry stays stored
lru_get_sync_data(data, k, ttl_seconds, t) ==
    IF ~HasKey(data, k) THEN data
    ELSE IF is_expired(data[IndexOf(data, k)], ttl_seconds, t) THEN data
    ELSE [data EXCEPT ![IndexOf(data, k)] = touch(@, t)]

lru_set(data, k, v, max_size, ttl_seconds, t) ==
    evict_if_needed(PutEntry(data, CacheEntry(k, v, t)), max_size, ttl_seconds, t)

lru_set_sync(data, k, v, t) == PutEntry(data, CacheEntry(k, v, t))

lru_delete(data, k) == DelKeys(data, {k})

\* ------------------------------------------------------------------ history
\* reads: storage round trips that read; ok: FALSE when the call raised;
\* expired / evicted: entries a set removed as expired / by LRU order
Op(name, id, value, result) ==
    [op |-> name, id |-> id, value |-> value, result |-> result,
     reads |-> 0, ok |-> TRUE, fresh |-> FALSE, expired |-> 0, evicted |-> 0,
     tag |-> name, follows |-> "none", carry |-> value, prev |-> None]

\* history kept only for the keys still stored
Stored(h, data) == [k \in Keys |-> IF k \in KeySet(data) THEN h[k] ELSE None]

\* ------------------------------------------------- LRUCache exercised directly
InitLRU ==
    /\ now = 0
    /\ lru_data = <<>>
    /\ lru_max_size \in 1..MaxCapacity
    /\ lru_ttl \in 0..MaxTTL
    /\ set_at = [k \in Keys |-> None]
    /\ accessed_at = [k \in Keys |-> None]
    /\ last = Op("init", None, None, None)
    /\ kind = "lru"
    /\ initialized = FALSE
    /\ guild_settings = <<>> /\ user_settings = <<>> /\ boost_counts = <<>>
    /\ dictionaries = <<>> /\ global_dict = None /\ active_voice_guilds = {}
    /\ db_guild_settings = <<>> /\ db_user_settings = <<>>
    /\ db_guild_boosts = <<>> /\ db_dict = <<>>
    /\ notifications = <<>>
    /\ global_set = None
    /\ ListenerNotStarted

dbAll == <<kind, initialized, cacheVars, dbVars, notifications, global_set, listenerVars,
          extVars>>

Tick ==
    /\ now < MaxTime
    /\ now' = now + 1
    /\ last' = Op("tick", None, None, None)
    /\ UNCHANGED <<lruVars, dbAll>>

LruGet(k) ==
    LET r == lru_get_value(lru_data, k, lru_ttl, now)
    IN  /\ lru_data' = lru_get_data(lru_data, k, lru_ttl, now)
        /\ last' = Op("get", k, None, r)
        /\ accessed_at' = Stored([accessed_at EXCEPT ![k] = IF r # None THEN now ELSE @], lru_data')
        /\ set_at' = Stored(set_at, lru_data')
        /\ UNCHANGED <<now, lru_max_size, lru_ttl, dbAll>>

LruGetSync(k) ==
    LET r == lru_get_value(lru_data, k, lru_ttl, now)
    IN  /\ lru_data' = lru_get_sync_data(lru_data, k, lru_ttl, now)
        /\ last' = Op("get_sync", k, None, r)
        /\ accessed_at' = Stored([accessed_at EXCEPT ![k] = IF r # None THEN now ELSE @], lru_data')
        /\ set_at' = Stored(set_at, lru_data')
        /\ UNCHANGED <<now, lru_max_size, lru_ttl, dbAll>>

LruSet(k, v) ==
    /\ lru_data' = lru_set(lru_data, k, v, lru_max_size, lru_ttl, now)
    /\ last' = [Op("set", k, v, None) EXCEPT
                    !.fresh = ~HasKey(lru_data, k),
                    !.expired = Cardinality(ExpiredKeys(PutEntry(lru_data, CacheEntry(k, v, now)), lru_ttl, now)
                                            \ KeySet(lru_data')),
                    !.evicted = Cardinality((KeySet(lru_data) \cup {k}) \ KeySet(lru_data'))
                                - Cardinality(ExpiredKeys(PutEntry(lru_data, CacheEntry(k, v, now)), lru_ttl, now)
                                              \ KeySet(lru_data'))]
    /\ accessed_at' = Stored([accessed_at EXCEPT ![k] = now], lru_data')
    /\ set_at' = Stored([set_at EXCEPT ![k] = now], lru_data')
    /\ UNCHANGED <<now, lru_max_size, lru_ttl, dbAll>>

LruSetSync(k, v) ==
    /\ lru_data' = lru_set_sync(lru_data, k, v, now)
    /\ last' = Op("set_sync", k, v, None)
    /\ accessed_at' = Stored([accessed_at EXCEPT ![k] = now], lru_data')
    /\ set_at' = Stored([set_at EXCEPT ![k] = now], lru_data')
    /\ UNCHANGED <<now, lru_max_size, lru_ttl, dbAll>>

LruDelete(k) ==
    /\ lru_data' = lru_delete(lru_data, k)
    /\ last' = Op("delete", k, None, IF HasKey(lru_data, k) THEN 1 ELSE 0)
    /\ accessed_at' = Stored(accessed_at, lru_data')
    /\ set_at' = Stored(set_at, lru_data')
    /\ UNCHANGED <<now, lru_max_size, lru_ttl, dbAll>>

LruClear ==
    /\ lru_data' = <<>>
    /\ last' = Op("clear", None, None, None)
    /\ accessed_at' = Stored(accessed_at, lru_data')
    /\ set_at' = Stored(set_at, lru_data')
    /\ UNCHANGED <<now, lru_max_size, lru_ttl, dbAll>>

NextLRU ==
    \/ Tick
    \/ \E k \in Keys : LruGet(k)
    \/ \E k \in Keys : LruGetSync(k)
    \/ \E k \in Keys, v \in Values : LruSet(k, v)
    \/ \E k \in Keys, v \in Values : LruSetSync(k, v)
    \/ \E k \in Keys : LruDelete(k)
    \/ LruClear

SpecLRU == InitLRU /\ [][NextLRU]_vars

\* ---------------------------------------------------------------- SettingsCache
MAX_GUILD_SETTINGS == ScaledCapacity
MAX_USER_SETTINGS == ScaledCapacity
MAX_BOOST_COUNTS == ScaledCapacity
MAX_DICTIONARIES == ScaledCapacity
GUILD_SETTINGS_TTL == ScaledTTL
USER_SETTINGS_TTL == ScaledTTL
BOOST_COUNT_TTL == ScaledTTL
DICT_TTL == ScaledTTL

\* SettingsCache._global_dict_id as set by init_db from GLOBAL_DICT_ID
global_dict_id == 3
\* guilds whose dictionary is exercised, and every owner of a row of table dict
DictGuilds == {1}
DictIds == DictGuilds \cup {global_dict_id}

cache_get_dict(dicts, gdict, g, t) ==
    IF g = global_dict_id THEN gdict ELSE lru_get_value(dicts, g, DICT_TTL, t)

\* the dictionaries cache after SettingsCache.get_dict
cache_get_dict_data(dicts, g, t) ==
    IF g = global_dict_id THEN dicts ELSE lru_get_data(dicts, g, DICT_TTL, t)

\* SettingsCache.set_dict: <<dictionaries, _global_dict>> afterwards
cache_set_dict(dicts, gdict, g, data, t) ==
    IF g = global_dict_id THEN <<dicts, data>>
    ELSE <<lru_set(dicts, g, data, MAX_DICTIONARIES, DICT_TTL, t), gdict>>

cache_set_dict_sync(dicts, gdict, g, data, t) ==
    IF g = global_dict_id THEN <<dicts, data>>
    ELSE <<lru_set_sync(dicts, g, data, t), gdict>>

cache_invalidate_dict(dicts, gdict, g) ==
    IF g = global_dict_id THEN <<dicts, None>> ELSE <<lru_delete(dicts, g), gdict>>

\* a removal that does not spare the global dictionary
cache_remove_dict_any(dicts, gdict, g) ==
    IF g = global_dict_id THEN <<dicts, None>> ELSE <<lru_delete(dicts, g), gdict>>

\* a removal that leaves the guild's dictionary in the cache
cache_remove_dict_noop(dicts, gdict, g) == <<dicts, gdict>>

cache_remove_dict(dicts, gdict, g) ==
    IF g = global_dict_id THEN <<dicts, gdict>> ELSE <<lru_delete(dicts, g), gdict>>

is_dict_loaded(dicts, gdict, g, t) ==
    IF g = global_dict_id THEN gdict # None
    ELSE lru_get_value(dicts, g, DICT_TTL, t) # None

\* is_dict_loaded reads through get_sync, which touches a live entry
is_dict_loaded_data(dicts, g, t) ==
    IF g = global_dict_id THEN dicts ELSE lru_get_sync_data(dicts, g, DICT_TTL, t)

is_guild_active(active, g) == g \in active

\* --------------------------------------------------------------------- storage
\* GuildSettings.model_validate raises for a max_chars outside [10, 500]
model_validate_ok(raw) == raw >= 10 /\ raw <= 500

\* the payload pg_notify sends for a row change (notify_settings_change /
\* notify_settings_delete): dict rows carry no data
Notification(table, operation, id, data) ==
    [table |-> table, operation |-> operation, id |-> id, data |-> data]

\* TG_OP of INSERT ... ON CONFLICT DO UPDATE
UpsertOp(row) == IF row = None THEN "INSERT" ELSE "UPDATE"

\* the undelivered payloads after pg_notify of n: only a connection that is
\* open and listening receives it, a payload sent meanwhile is lost
Deliver(queue, n) == IF listener_connection = "open" THEN Append(queue, n) ELSE queue

\* at most bound payloads wait to be handled
CanDeliver(bound) == listener_connection = "open" => Len(notifications) < bound

\* --------------------------------------------------------- history of Database
\* follows: the tag of the call that ran immediately before on the same id and
\* returned normally; prev: what that call carried (the value it wrote, or for
\* load_guild_dict what it left cached)
Follow(rec) ==
    [rec EXCEPT !.follows = IF last.ok /\ last.id = rec.id THEN last.tag ELSE "none",
                !.prev = IF last.ok /\ last.id = rec.id THEN last.carry ELSE None]

DbOp(name, id, value, result, reads, ok) ==
    Follow([Op(name, id, value, result) EXCEPT !.reads = reads, !.ok = ok])

\* -------------------------------------------------------------------- Database
Init ==
    /\ now = 0
    /\ lru_data = <<>> /\ lru_max_size = ScaledCapacity /\ lru_ttl = ScaledTTL
    /\ set_at = [k \in Keys |-> None]
    /\ accessed_at = [k \in Keys |-> None]
    /\ last = Op("init", None, None, None)
    /\ kind \in Kinds
    /\ initialized = FALSE
    /\ guild_settings = <<>> /\ user_settings = <<>> /\ boost_counts = <<>>
    /\ dictionaries = <<>> /\ global_dict = None /\ active_voice_guilds = {}
    /\ db_guild_settings \in [Guilds -> IF kind = "guild_settings"
                                        THEN SettingsValues \cup {None} ELSE {None}]
    /\ db_user_settings \in [Users -> IF kind = "user_settings"
                                      THEN Profiles \cup {None} ELSE {None}]
    /\ db_guild_boosts \in [Guilds -> IF kind = "boost_counts" THEN BoostCounts ELSE {0}]
    /\ db_dict \in [DictIds -> IF kind = "dict" THEN DictValues \cup {None} ELSE {None}]
    /\ notifications = <<>>
    /\ global_set = None
    /\ ListenerNotStarted

\* the connections left open and unreferenced once a new connection has been
\* assigned to _listener_connection: the one it replaces is not closed by the
\* assignment
orphaned_by_assignment(conn, orphans) ==
    IF conn \in LiveConnections THEN orphans + 1 ELSE orphans

\* set_sync of every element of ids, in the order the rows come back
RECURSIVE LoadRows(_, _, _, _)
LoadRows(data, rows, ids, t) ==
    IF ids = {} THEN data
    ELSE LET id == CHOOSE i \in ids : \A j \in ids : i <= j
         IN  LoadRows(lru_set_sync(data, id, rows[id], t), rows, ids \ {id}, t)

\* Database.init_db from _load_initial_data on: the rows are loaded and
\* _start_listener opens the listener connection
LoadInitialData ==
    /\ ~initialized
    /\ initialized' = TRUE
    /\ guild_settings' = LoadRows(guild_settings, db_guild_settings,
            {g \in Guilds : db_guild_settings[g] # None /\ model_validate_ok(db_guild_settings[g])},
            now)
    /\ user_settings' = LoadRows(user_settings, db_user_settings,
            {u \in Users : db_user_settings[u] # None}, now)
    /\ boost_counts' = LoadRows(boost_counts, db_guild_boosts,
            {g \in Guilds : db_guild_boosts[g] > 0}, now)
    /\ global_dict' = IF global_dict_id # 0 /\ db_dict[global_dict_id] # None
                      THEN cache_set_dict_sync(dictionaries, global_dict, global_dict_id,
                                               db_dict[global_dict_id], now)[2]
                      ELSE global_dict
    /\ global_set' = global_dict'
    /\ listener_connection' = "open"
    /\ listener_healthy' = TRUE
    /\ reconnect_attempts' = 0
    /\ last' = Op("load_initial_data", None, None, None)
    /\ listener_task' = "running"
    /\ orphan_connections' = orphaned_by_assignment(listener_connection, orphan_connections)
    /\ UNCHANGED <<now, lruVars, kind, dictionaries, active_voice_guilds, dbVars, notifications,
                   cache_version, shutdown, reconnecting, boost_txns, taskVars, slotVars,
                   voiceVars>>

DbTick ==
    /\ initialized
    /\ now < MaxTime
    /\ now' = now + 1
    /\ last' = Op("tick", None, None, None)
    /\ UNCHANGED <<lruVars, dbAll>>

\* ---- guild settings
\* the cache after get_guild_settings(g); row read from storage unless fail
get_guild_settings_cache(cache, g, row, fail, t) ==
    IF lru_get_value(cache, g, GUILD_SETTINGS_TTL, t) # None
    THEN lru_get_data(cache, g, GUILD_SETTINGS_TTL, t)
    ELSE IF ~fail /\ row # None /\ model_validate_ok(row)
         THEN lru_set(lru_get_data(cache, g, GUILD_SETTINGS_TTL, t), g, row,
                      MAX_GUILD_SETTINGS, GUILD_SETTINGS_TTL, t)
         ELSE lru_get_data(cache, g, GUILD_SETTINGS_TTL, t)

GetGuildSettings(g, fail) ==
    LET cached == lru_get_value(guild_settings, g, GUILD_SETTINGS_TTL, now)
        row == db_guild_settings[g]
        raises == cached = None /\ (fail \/ (row # None /\ ~model_validate_ok(row)))
        result == IF cached # None THEN cached
                  ELSE IF raises THEN None
                  ELSE IF row # None THEN row
                  ELSE DefaultMaxChars
    IN  /\ initialized /\ kind = "guild_settings"
        /\ (fail => cached = None)
        /\ guild_settings' = get_guild_settings_cache(guild_settings, g, row, fail, now)
        /\ last' = [DbOp("get_guild_settings", g, None, result,
                         IF cached = None THEN 1 ELSE 0, ~raises)
                    EXCEPT !.tag = IF cached = None /\ fail THEN "storage_error"
                                   ELSE IF raises THEN "validation_error"
                                   ELSE IF cached = None /\ row = None THEN "miss_norow"
                                   ELSE "get_guild_settings"]
        /\ UNCHANGED <<now, lruVars, listenerVars, kind, initialized, user_settings, boost_counts,
                       dictionaries, global_dict, active_voice_guilds, dbVars, notifications, global_set, extVars>>

\* the cache after set_guild_settings(g, s); wrote = the storage write succeeded
set_guild_settings_cache(cache, g, s, wrote, t) ==
    IF wrote THEN lru_set(cache, g, s, MAX_GUILD_SETTINGS, GUILD_SETTINGS_TTL, t) ELSE cache

SetGuildSettings(g, s, fail) ==
    /\ initialized /\ kind = "guild_settings"
    /\ CanDeliver(MaxPending)
    /\ db_guild_settings' = IF fail THEN db_guild_settings
                            ELSE [db_guild_settings EXCEPT ![g] = s]
    /\ notifications' = IF fail THEN notifications
                        ELSE Deliver(notifications,
                                Notification("guild_settings", UpsertOp(db_guild_settings[g]), g, s))
    /\ guild_settings' = set_guild_settings_cache(guild_settings, g, s, ~fail, now)
    /\ last' = DbOp("set_guild_settings", g, s, None, 0, ~fail)
    /\ UNCHANGED <<now, lruVars, listenerVars, kind, initialized, user_settings, boost_counts, dictionaries,
                   global_dict, active_voice_guilds, db_user_settings, db_guild_boosts, db_dict,
                   global_set, extVars>>

\* ---- user settings
get_user_setting_cache(cache, u, row, fail, t) ==
    IF lru_get_value(cache, u, USER_SETTINGS_TTL, t) # None
    THEN lru_get_data(cache, u, USER_SETTINGS_TTL, t)
    ELSE IF ~fail /\ row # None
         THEN lru_set(lru_get_data(cache, u, USER_SETTINGS_TTL, t), u, row,
                      MAX_USER_SETTINGS, USER_SETTINGS_TTL, t)
         ELSE lru_get_data(cache, u, USER_SETTINGS_TTL, t)

GetUserSetting(u, fail) ==
    LET cached == lru_get_value(user_settings, u, USER_SETTINGS_TTL, now)
        row == db_user_settings[u]
        raises == cached = None /\ fail
        result == IF cached # None THEN cached
                  ELSE IF raises THEN None
                  ELSE IF row # None THEN row
                  ELSE DefaultSpeaker
    IN  /\ initialized /\ kind = "user_settings"
        /\ (fail => cached = None)
        /\ user_settings' = get_user_setting_cache(user_settings, u, row, fail, now)
        /\ last' = [DbOp("get_user_setting", u, None, result,
                         IF cached = None THEN 1 ELSE 0, ~raises)
                    EXCEPT !.tag = IF cached = None /\ ~raises /\ row = None
                                   THEN "miss_norow" ELSE "get_user_setting"]
        /\ UNCHANGED <<now, lruVars, listenerVars, kind, initialized, guild_settings, boost_counts,
                       dictionaries, global_dict, active_voice_guilds, dbVars, notifications, global_set, extVars>>

set_user_setting_cache(cache, u, data, wrote, t) ==
    IF wrote THEN lru_set(cache, u, data, MAX_USER_SETTINGS, USER_SETTINGS_TTL, t) ELSE cache

SetUserSetting(u, data, fail) ==
    /\ initialized /\ kind = "user_settings"
    /\ CanDeliver(MaxPending)
    /\ db_user_settings' = IF fail THEN db_user_settings
                           ELSE [db_user_settings EXCEPT ![u] = data]
    /\ notifications' = IF fail THEN notifications
                        ELSE Deliver(notifications,
                                Notification("user_settings", UpsertOp(db_user_settings[u]), u, data))
    /\ user_settings' = set_user_setting_cache(user_settings, u, data, ~fail, now)
    /\ last' = DbOp("set_user_setting", u, data, None, 0, ~fail)
    /\ UNCHANGED <<now, lruVars, listenerVars, kind, initialized, guild_settings, boost_counts, dictionaries,
                   global_dict, active_voice_guilds, db_guild_settings, db_guild_boosts, db_dict,
                   global_set, extVars>>

\* ---- boost counts
\* a fetched count cached only when it is not zero
get_guild_boost_count_cache_nonzero(cache, g, count, fail, t) ==
    IF lru_get_value(cache, g, BOOST_COUNT_TTL, t) # None
    THEN lru_get_data(cache, g, BOOST_COUNT_TTL, t)
    ELSE IF ~fail /\ count # 0
         THEN lru_set(lru_get_data(cache, g, BOOST_COUNT_TTL, t), g, count,
                      MAX_BOOST_COUNTS, BOOST_COUNT_TTL, t)
         ELSE lru_get_data(cache, g, BOOST_COUNT_TTL, t)

\* count = fetchval(COUNT(*)) or 0 is cached whatever it is
get_guild_boost_count_cache(cache, g, count, fail, t) ==
    IF lru_get_value(cache, g, BOOST_COUNT_TTL, t) # None
    THEN lru_get_data(cache, g, BOOST_COUNT_TTL, t)
    ELSE IF ~fail
         THEN lru_set(lru_get_data(cache, g, BOOST_COUNT_TTL, t), g, count,
                      MAX_BOOST_COUNTS, BOOST_COUNT_TTL, t)
         ELSE lru_get_data(cache, g, BOOST_COUNT_TTL, t)

GetGuildBoostCount(g, fail) ==
    LET cached == lru_get_value(boost_counts, g, BOOST_COUNT_TTL, now)
        count == db_guild_boosts[g]
        raises == cached = None /\ fail
        result == IF cached # None THEN cached ELSE IF raises THEN None ELSE count
    IN  /\ initialized /\ kind = "boost_counts"
        /\ (fail => cached = None)
        /\ boost_counts' = get_guild_boost_count_cache(boost_counts, g, count, fail, now)
        /\ last' = [DbOp("get_guild_boost_count", g, None, result,
                         IF cached = None THEN 1 ELSE 0, ~raises)
                    EXCEPT !.tag = IF cached = None /\ ~raises /\ count = 0
                                   THEN "miss_norow" ELSE "get_guild_boost_count"]
        /\ UNCHANGED <<now, lruVars, listenerVars, kind, initialized, guild_settings, user_settings,
                       dictionaries, global_dict, active_voice_guilds, dbVars, notifications, global_set, extVars>>

\* ---- dictionaries
\* what Database.get_dict returns for a row: the empty mapping when there is none
RowOrEmpty(row) == IF row = None THEN EmptyDict ELSE row

\* <<dictionaries, _global_dict>> after get_dict(g): a fetched row is cached
\* only for an active guild or the global dictionary, a missing row never
get_dict_cache(dicts, gdict, active, g, row, fail, t) ==
    IF g = 0 THEN <<dicts, gdict>>
    ELSE IF cache_get_dict(dicts, gdict, g, t) # None
         THEN <<cache_get_dict_data(dicts, g, t), gdict>>
         ELSE IF ~fail /\ row # None /\ (is_guild_active(active, g) \/ g = global_dict_id)
              THEN cache_set_dict(cache_get_dict_data(dicts, g, t), gdict, g, row, t)
              ELSE <<cache_get_dict_data(dicts, g, t), gdict>>

GetDict(g, fail) ==
    LET cached == IF g = 0 THEN None ELSE cache_get_dict(dictionaries, global_dict, g, now)
        row == IF g = 0 THEN None ELSE db_dict[g]
        reads == IF g # 0 /\ cached = None THEN 1 ELSE 0
        raises == reads = 1 /\ fail
        result == IF g = 0 THEN EmptyDict
                  ELSE IF cached # None THEN cached
                  ELSE IF raises THEN None
                  ELSE RowOrEmpty(row)
        after == get_dict_cache(dictionaries, global_dict, active_voice_guilds, g, row, fail, now)
        \* value: what had been stored last as the global dictionary before the call
        rec == DbOp("get_dict", g, IF g = global_dict_id THEN global_set ELSE None,
                    result, reads, ~raises)
    IN  /\ initialized /\ kind = "dict"
        /\ (fail => reads = 1)
        /\ dictionaries' = after[1]
        /\ global_dict' = after[2]
        /\ global_set' = IF after[2] # global_dict THEN after[2] ELSE global_set
        /\ last' = [rec EXCEPT !.tag = IF rec.follows = "dict_event_loaded" /\ ~raises
                                       THEN "get_after_event" ELSE "get_dict"]
        /\ UNCHANGED <<now, lruVars, listenerVars, kind, initialized, guild_settings, user_settings,
                       boost_counts, active_voice_guilds, dbVars, notifications, extVars>>

\* the cache updated whether or not the row was written
add_or_update_dict_cache_unconditional(dicts, gdict, active, g, d, wrote, t) ==
    IF is_guild_active(active, g) \/ g = global_dict_id
    THEN cache_set_dict(dicts, gdict, g, d, t)
    ELSE <<dicts, gdict>>

\* <<dictionaries, _global_dict>> after add_or_update_dict(g, d)
add_or_update_dict_cache(dicts, gdict, active, g, d, wrote, t) ==
    IF wrote /\ (is_guild_active(active, g) \/ g = global_dict_id)
    THEN cache_set_dict(dicts, gdict, g, d, t)
    ELSE <<dicts, gdict>>

AddOrUpdateDict(g, d, fail) ==
    LET after == add_or_update_dict_cache(dictionaries, global_dict, active_voice_guilds,
                                          g, d, ~fail, now)
    IN  /\ initialized /\ kind = "dict"
        /\ CanDeliver(MaxPending)
        /\ db_dict' = IF fail THEN db_dict ELSE [db_dict EXCEPT ![g] = d]
        /\ notifications' = IF fail THEN notifications
                            ELSE Deliver(notifications,
                                        Notification("dict", UpsertOp(db_dict[g]), g, None))
        /\ dictionaries' = after[1]
        /\ global_dict' = after[2]
        /\ global_set' = IF ~fail /\ g = global_dict_id THEN d ELSE global_set
        /\ last' = DbOp("add_or_update_dict", g, d, None, 0, ~fail)
        /\ UNCHANGED <<now, lruVars, listenerVars, kind, initialized, guild_settings, user_settings,
                       boost_counts, active_voice_guilds, db_guild_settings, db_user_settings,
                       db_guild_boosts, extVars>>

\* a load that caches a mapping only when a row exists
load_guild_dict_cache_rows_only(dicts, gdict, g, row, fail, t) ==
    IF is_dict_loaded(dicts, gdict, g, t)
    THEN <<is_dict_loaded_data(dicts, g, t), gdict>>
    ELSE IF fail \/ row = None THEN <<dicts, gdict>>
         ELSE cache_set_dict(dicts, gdict, g, row, t)

\* <<dictionaries, _global_dict>> after load_guild_dict(g)
load_guild_dict_cache(dicts, gdict, g, row, fail, t) ==
    IF is_dict_loaded(dicts, gdict, g, t)
    THEN <<is_dict_loaded_data(dicts, g, t), gdict>>
    ELSE IF fail THEN <<dicts, gdict>>
         ELSE cache_set_dict(dicts, gdict, g, RowOrEmpty(row), t)

\* value: what was cached when the fetch was skipped; result: what is cached afterwards
LoadGuildDict(g, fail) ==
    LET loaded == is_dict_loaded(dictionaries, global_dict, g, now)
        after == load_guild_dict_cache(dictionaries, global_dict, g, db_dict[g], fail, now)
    IN  /\ initialized /\ kind = "dict"
        /\ (fail => ~loaded)
        /\ active_voice_guilds' = active_voice_guilds \cup {g}
        /\ dictionaries' = after[1]
        /\ global_dict' = after[2]
        /\ global_set' = IF ~loaded /\ ~fail /\ g = global_dict_id
                         THEN RowOrEmpty(db_dict[g]) ELSE global_set
        /\ last' = [DbOp("load_guild_dict", g,
                         IF loaded THEN cache_get_dict(dictionaries, global_dict, g, now) ELSE None,
                         IF fail THEN None ELSE cache_get_dict(after[1], after[2], g, now),
                         IF loaded THEN 0 ELSE 1, ~fail)
                    EXCEPT !.carry = IF fail THEN None
                                     ELSE cache_get_dict(after[1], after[2], g, now)]
        /\ UNCHANGED <<now, lruVars, listenerVars, kind, initialized, guild_settings, user_settings,
                       boost_counts, dbVars, notifications, extVars>>

UnloadGuildDict(g) ==
    LET after == cache_remove_dict(dictionaries, global_dict, g)
    IN  /\ initialized /\ kind = "dict"
        /\ active_voice_guilds' = active_voice_guilds \ {g}
        /\ dictionaries' = after[1]
        /\ global_dict' = after[2]
        /\ last' = DbOp("unload_guild_dict", g, None, None, 0, TRUE)
        /\ UNCHANGED <<now, lruVars, listenerVars, kind, initialized, guild_settings, user_settings,
                       boost_counts, dbVars, notifications, global_set, extVars>>

\* another process writes or deletes a row of table dict; the trigger notifies
ExternalDictWrite(g, d) ==
    /\ initialized /\ kind = "dict"
    /\ CanDeliver(MaxPending)
    /\ db_dict' = [db_dict EXCEPT ![g] = d]
    /\ notifications' = Deliver(notifications, Notification("dict", UpsertOp(db_dict[g]), g, None))
    /\ last' = DbOp("external_write", g, None, None, 0, TRUE)
    /\ UNCHANGED <<now, lruVars, listenerVars, kind, initialized, cacheVars, global_set,
                   db_guild_settings, db_user_settings, db_guild_boosts, extVars>>

ExternalDictDelete(g) ==
    /\ initialized /\ kind = "dict"
    /\ CanDeliver(MaxPending)
    /\ db_dict[g] # None
    /\ db_dict' = [db_dict EXCEPT ![g] = None]
    /\ notifications' = Deliver(notifications, Notification("dict", "DELETE", g, None))
    /\ last' = DbOp("external_delete", g, None, None, 0, TRUE)
    /\ UNCHANGED <<now, lruVars, listenerVars, kind, initialized, cacheVars, global_set,
                   db_guild_settings, db_user_settings, db_guild_boosts, extVars>>

\* ---- LISTEN/NOTIFY handlers
\* a data field that is a string json.loads rejects
Undecodable == 0 - 2

\* the guild settings cache after _handle_guild_settings_change
handle_guild_settings_change(cache, operation, g, data, t) ==
    IF operation = "DELETE" THEN lru_delete(cache, g)
    ELSE IF data \notin {None, Undecodable} /\ model_validate_ok(data)
         THEN lru_set(cache, g, data, MAX_GUILD_SETTINGS, GUILD_SETTINGS_TTL, t)
         ELSE lru_delete(cache, g)

\* the user settings cache after _handle_user_settings_change: whatever the
\* payload decodes to is stored, None included
handle_user_settings_change(cache, operation, u, data, t) ==
    IF operation = "DELETE" THEN lru_delete(cache, u)
    ELSE IF data = Undecodable THEN lru_delete(cache, u)
    ELSE lru_set(cache, u, data, MAX_USER_SETTINGS, USER_SETTINGS_TTL, t)

\* a reload that drops the cached dictionary when the fetch fails
reload_dict_drop_on_failure(dicts, gdict, g, row, fail, t) ==
    IF fail THEN cache_set_dict(dicts, gdict, g, EmptyDict, t)
    ELSE cache_set_dict(dicts, gdict, g, RowOrEmpty(row), t)

\* <<dictionaries, _global_dict>> after _reload_dict(g): a failed fetch is logged
reload_dict(dicts, gdict, g, row, fail, t) ==
    IF fail THEN <<dicts, gdict>> ELSE cache_set_dict(dicts, gdict, g, RowOrEmpty(row), t)

\* a handler that reloads the dictionary of every id, active or not
handle_dict_change_reload_all(dicts, gdict, active, operation, g, row, fail, t) ==
    IF operation = "DELETE" THEN cache_set_dict(dicts, gdict, g, EmptyDict, t)
    ELSE reload_dict(dicts, gdict, g, row, fail, t)

\* <<dictionaries, _global_dict>> after _handle_dict_change
handle_dict_change(dicts, gdict, active, operation, g, row, fail, t) ==
    IF g = global_dict_id
    THEN IF operation = "DELETE" THEN cache_set_dict(dicts, gdict, g, EmptyDict, t)
         ELSE reload_dict(dicts, gdict, g, row, fail, t)
    ELSE IF is_guild_active(active, g) THEN cache_invalidate_dict(dicts, gdict, g)
         ELSE <<dicts, gdict>>

\* the boost count cache after _handle_boost_change: data is the count of the
\* payload {"count": c}, None when the payload carries no count
handle_boost_change(cache, g, data, t) ==
    IF data \notin {None, Undecodable} THEN lru_set(cache, g, data, MAX_BOOST_COUNTS, BOOST_COUNT_TTL, t)
    ELSE lru_delete(cache, g)

\* <<guild_settings, user_settings, boost_counts, dictionaries, _global_dict>>
\* after the dispatch of _handle_notification on the decoded payload n
handle_notification(n, fail) ==
    LET after == IF n.table = "dict"
                 THEN handle_dict_change(dictionaries, global_dict, active_voice_guilds,
                                         n.operation, n.id, db_dict[n.id], fail, now)
                 ELSE <<dictionaries, global_dict>>
    IN  << IF n.table = "guild_settings"
           THEN handle_guild_settings_change(guild_settings, n.operation, n.id, n.data, now)
           ELSE guild_settings,
           IF n.table = "user_settings"
           THEN handle_user_settings_change(user_settings, n.operation, n.id, n.data, now)
           ELSE user_settings,
           IF n.table = "guild_boosts"
           THEN handle_boost_change(boost_counts, n.id, n.data, now)
           ELSE boost_counts,
           after[1], after[2] >>

\* _handle_notification_safe for the oldest undelivered payload
HandleNotification(fail) ==
    LET n == Head(notifications)
        fetches == n.table = "dict" /\ n.id = global_dict_id /\ n.operation # "DELETE"
        after == handle_notification(n, fail)
        rec == DbOp("notification", n.id, IF n.table = "guild_boosts" THEN n.data ELSE None,
                    None, IF fetches THEN 1 ELSE 0, TRUE)
    IN  /\ initialized
        /\ notifications # <<>>
        /\ (fail => fetches)
        /\ notifications' = Tail(notifications)
        /\ guild_settings' = after[1]
        /\ user_settings' = after[2]
        /\ boost_counts' = after[3]
        /\ dictionaries' = after[4]
        /\ global_dict' = after[5]
        /\ global_set' = IF n.table = "dict" /\ n.id = global_dict_id /\ ~(fetches /\ fail)
                         THEN after[5] ELSE global_set
        /\ last' = [rec EXCEPT !.tag =
                        IF /\ n.table = "dict" /\ n.id # global_dict_id
                           /\ is_guild_active(active_voice_guilds, n.id)
                           /\ is_dict_loaded(dictionaries, global_dict, n.id, now)
                        THEN "dict_event_loaded"
                        ELSE IF n.table = "guild_boosts" /\ n.data # None THEN "boost_event"
                        ELSE "notification"]
        /\ UNCHANGED <<now, lruVars, listenerVars, kind, initialized, active_voice_guilds, dbVars, extVars>>

Next ==
    \/ LoadInitialData
    \/ DbTick
    \/ \E g \in Guilds, fail \in BOOLEAN : GetGuildSettings(g, fail)
    \/ \E g \in Guilds, s \in SettingsValues, fail \in BOOLEAN : SetGuildSettings(g, s, fail)
    \/ \E u \in Users, fail \in BOOLEAN : GetUserSetting(u, fail)
    \/ \E u \in Users, d \in Profiles, fail \in BOOLEAN : SetUserSetting(u, d, fail)
    \/ \E g \in Guilds, fail \in BOOLEAN : GetGuildBoostCount(g, fail)
    \/ \E g \in DictIds \cup {0}, fail \in BOOLEAN : GetDict(g, fail)
    \/ \E g \in DictIds, d \in DictValues, fail \in BOOLEAN : AddOrUpdateDict(g, d, fail)
    \/ \E g \in DictGuilds, fail \in BOOLEAN : LoadGuildDict(g, fail)
    \/ \E g \in DictIds : UnloadGuildDict(g)
    \/ \E g \in DictIds, d \in DictValues : ExternalDictWrite(g, d)
    \/ \E g \in DictIds : ExternalDictDelete(g)
    \/ \E fail \in BOOLEAN : HandleNotification(fail)

Spec == Init /\ [][Next]_vars

\* C1: whenever an async set has just completed, the cache stores at most
\* max_size entries, also when set_sync calls had filled it past max_size.
C1_SetBoundsSize == last.op = "set" => Len(lru_data) <= lru_max_size

\* a set that had to remove two entries at once: set_sync had overfilled the cache
C1_Witness == last.op = "set" /\ last.expired + last.evicted >= 2 /\ Len(lru_data) = lru_max_size

\* no stored entry is older than the TTL
NoneExpired == \A k \in KeySet(lru_data) : ~(now - set_at[k] > lru_ttl)

\* the keys a set step removed
RemovedBySet == (KeySet(lru_data) \cup {last'.id}) \ KeySet(lru_data')

\* last access of k when the set step evicts: the key being set counts as accessed now
AccessTime(k) == IF k = last'.id THEN now ELSE accessed_at[k]

\* C2: a set of a new key that pushes the cache over max_size while nothing is
\* expired removes exactly len - max_size keys, every removed key was accessed
\* no later than every key that stays, and the key just set stays.
C2_EvictsLeastRecentlyAccessed ==
    [][(/\ last'.op = "set"
        /\ ~HasKey(lru_data, last'.id)
        /\ Len(lru_data) + 1 > lru_max_size
        /\ NoneExpired)
       => /\ Cardinality(RemovedBySet) = Len(lru_data) + 1 - lru_max_size
          /\ last'.id \notin RemovedBySet
          /\ \A r \in RemovedBySet : \A s \in KeySet(lru_data') : AccessTime(r) <= AccessTime(s)]_vars

\* a new key was set, nothing was expired, LRU order removed an entry, and a
\* surviving older-inserted key had been read after a later-inserted one was set
C2_Witness ==
    /\ last.op = "set" /\ last.fresh /\ last.expired = 0 /\ last.evicted >= 1
    /\ Len(lru_data) >= 2
    /\ lru_data[1].last_accessed > lru_data[1].created_at

\* C3: once more than ttl has passed since the latest set of a key, get and
\* get_sync return absent for it, however many hits happened in between.
C3_ExpiredIsAbsent ==
    [][(/\ last'.op \in {"get", "get_sync"}
        /\ set_at[last'.id] # None
        /\ now - set_at[last'.id] > lru_ttl)
       => last'.result = None]_vars

\* get_sync answered absent for a stored entry that had been hit after its set
C3_Witness ==
    /\ last.op = "get_sync" /\ last.result = None
    /\ set_at[last.id] # None
    /\ accessed_at[last.id] > set_at[last.id]
    /\ now - set_at[last.id] > lru_ttl

\* ------------------------------------------------------------ Database claims
CachedDict(g) == cache_get_dict(dictionaries, global_dict, g, now)

\* C4: a get that immediately follows a successful set of the same id returns
\* the value that was set and reads nothing from storage (guild settings, for
\* a value the GuildSettings model accepts, and user settings).
C4_WriteThroughRoundTrip ==
    /\ (/\ last.op = "get_guild_settings" /\ last.follows = "set_guild_settings"
        /\ model_validate_ok(last.prev))
           => (last.ok /\ last.reads = 0 /\ last.result = last.prev)
    /\ (last.op = "get_user_setting" /\ last.follows = "set_user_setting")
           => (last.ok /\ last.reads = 0 /\ last.result = last.prev)

\* C5 as stated: after a miss on an id without a row, a second get of the same
\* id right away reads nothing from storage, for all three kinds.
C5_DefaultCachedOnMiss ==
    (/\ last.op \in {"get_guild_settings", "get_user_setting", "get_guild_boost_count"}
     /\ last.follows = "miss_norow")
    => last.reads = 0

\* C5 amended: only get_guild_boost_count caches the default (0); the second
\* get of guild settings or of a user profile reads storage again and returns
\* the default again.
C5_OnlyBoostDefaultCached ==
    /\ (last.op = "get_guild_boost_count" /\ last.follows = "miss_norow")
           => (last.ok /\ last.reads = 0 /\ last.result = 0)
    /\ (last.op = "get_guild_settings" /\ last.follows = "miss_norow")
           => (last.reads = 1 /\ (last.ok => last.result = DefaultMaxChars))
    /\ (last.op = "get_user_setting" /\ last.follows = "miss_norow")
           => (last.reads = 1 /\ (last.ok => last.result = DefaultSpeaker))

\* the second get_guild_boost_count of a guild without boosts hit the cached 0
C5_Witness ==
    /\ last.op = "get_guild_boost_count" /\ last.follows = "miss_norow"
    /\ last.reads = 0 /\ last.result = 0 /\ db_guild_boosts[last.id] = 0

\* C6: get_guild_settings raises only when storage cannot be reached.
C6_GetGuildSettingsNeverRaises ==
    (last.op = "get_guild_settings" /\ last.tag # "storage_error") => last.ok

WriteOps == {"set_guild_settings", "set_user_setting", "add_or_update_dict"}

\* the row of the written table that a write step leaves in storage
WrittenRow ==
    IF last'.op = "set_guild_settings" THEN db_guild_settings'[last'.id]
    ELSE IF last'.op = "set_user_setting" THEN db_user_settings'[last'.id]
    ELSE db_dict'[last'.id]

\* C7: set_guild_settings, set_user_setting and add_or_update_dict write to
\* storage before they touch the cache: a call whose write fails leaves every
\* cache and every table as it was, and a call that succeeded has stored its value.
C7_PersistBeforeCache ==
    [][last'.op \in WriteOps
       => IF last'.ok
          THEN WrittenRow = last'.value
          ELSE UNCHANGED <<cacheVars, dbVars, extVars>>]_vars

\* a dictionary write failed for an active guild whose cached dictionary differs
\* from the one that was to be written
C7_Witness ==
    /\ last.op = "add_or_update_dict" /\ ~last.ok
    /\ last.id \in active_voice_guilds
    /\ CachedDict(last.id) # None /\ CachedDict(last.id) # last.value

\* C8: after a dictionary change event for an active non-global guild whose
\* dictionary is loaded, the next get_dict fetches once and returns the stored
\* value, and the get_dict right after it fetches nothing.
C8_ReloadAfterDictEvent ==
    /\ (last.op = "get_dict" /\ last.follows = "dict_event_loaded" /\ last.ok)
           => (last.reads = 1 /\ last.result = RowOrEmpty(db_dict[last.id]))
    /\ (last.op = "get_dict" /\ last.follows = "get_after_event")
           => last.reads = 0

\* C9: once a value was stored as the global dictionary, get_dict of the global
\* id returns the value stored last and reads nothing from storage, whatever
\* unloads, dictionary cache sets or clock ticks happened.
C9_GlobalDictKept ==
    (last.op = "get_dict" /\ last.id = global_dict_id /\ last.value # None)
    => (last.ok /\ last.reads = 0 /\ last.result = last.value)

\* get_dict right after unload_guild_dict of the global id, later than DICT_TTL
\* after the global dictionary was loaded
C9_Witness ==
    /\ last.op = "get_dict" /\ last.id = global_dict_id
    /\ last.follows = "unload_guild_dict"
    /\ last.result = 1 /\ last.reads = 0
    /\ now > DICT_TTL
    /\ dictionaries # <<>>

\* C10 as stated: after load_guild_dict(g) the guild is active and the cache
\* holds the stored mapping, which the next get_dict returns without a read.
C10_LoadHoldsStoredMapping ==
    /\ (last.op = "load_guild_dict" /\ last.ok /\ last.id # global_dict_id)
           => (last.id \in active_voice_guilds
               /\ last.result = RowOrEmpty(db_dict[last.id]))
    /\ (last.op = "get_dict" /\ last.follows = "load_guild_dict" /\ last.id # global_dict_id)
           => (last.reads = 0 /\ last.result = RowOrEmpty(db_dict[last.id]))

\* C10 amended: after load_guild_dict(g) the guild is active and the cache holds
\* a mapping for g: the stored one when the call fetched it, the one already
\* cached when a dictionary was loaded and the fetch was skipped; the next
\* get_dict returns that mapping without a read.
C10_LoadHoldsFetchedOrCached ==
    /\ (last.op = "load_guild_dict" /\ last.ok /\ last.id # global_dict_id)
           => /\ last.id \in active_voice_guilds
              /\ last.result # None
              /\ CachedDict(last.id) = last.result
              /\ last.reads = 1 => last.result = RowOrEmpty(db_dict[last.id])
              /\ last.reads = 0 => last.result = last.value
    /\ (last.op = "get_dict" /\ last.follows = "load_guild_dict" /\ last.id # global_dict_id)
           => (last.ok /\ last.reads = 0 /\ last.result = last.prev)

\* load_guild_dict fetched the empty mapping for a guild without a row
C10_Witness ==
    /\ last.op = "get_dict" /\ last.follows = "load_guild_dict" /\ last.id # global_dict_id
    /\ db_dict[last.id] = None /\ last.result = EmptyDict /\ last.reads = 0

\* C11 as stated: after unload_guild_dict(g) for a non-global g, g is not active
\* and has no cached dictionary, and the next get_dict(g) fetches once and
\* returns the empty mapping.
C11_UnloadThenGetEmpty ==
    /\ (last.op = "unload_guild_dict" /\ last.id # global_dict_id)
           => (last.id \notin active_voice_guilds /\ ~HasKey(dictionaries, last.id))
    /\ (last.op = "get_dict" /\ last.follows = "unload_guild_dict" /\ last.id # global_dict_id)
           => (last.reads = 1 /\ (last.ok => last.result = EmptyDict))

\* C11 amended: after unload_guild_dict(g) for a non-global g, g is not active
\* and has no cached dictionary, and the next get_dict(g) fetches once and
\* returns g's stored mapping, the empty mapping when g has no row.
C11_UnloadThenGetStored ==
    /\ (last.op = "unload_guild_dict" /\ last.id # global_dict_id)
           => (last.id \notin active_voice_guilds /\ ~HasKey(dictionaries, last.id))
    /\ (last.op = "get_dict" /\ last.follows = "unload_guild_dict" /\ last.id # global_dict_id)
           => (last.reads = 1 /\ (last.ok => last.result = RowOrEmpty(db_dict[last.id])))

\* get_dict right after the unload of a guild that has a stored dictionary
C11_Witness ==
    /\ last.op = "get_dict" /\ last.follows = "unload_guild_dict" /\ last.id # global_dict_id
    /\ last.ok /\ last.reads = 1 /\ last.result = 1 /\ db_dict[last.id] = 1

\* ------------------------------------------------------ guild_boosts writes
\* len(bot_instances): the boosts one guild may hold (activate_guild_boost)
max_boosts == 1
\* the guilds whose boosts are written; the others are only read
BoostedGuilds == {1}
\* payloads of guild_boosts that were delivered and are not handled yet
MaxBoostPending == 2

\* the state after init_db (pool, triggers, _load_initial_data, _start_listener)
\* on a database whose table guild_boosts holds any rows
InitBoost ==
    /\ now = 0
    /\ lru_data = <<>> /\ lru_max_size = ScaledCapacity /\ lru_ttl = ScaledTTL
    /\ set_at = [k \in Keys |-> None]
    /\ accessed_at = [k \in Keys |-> None]
    /\ last = Op("init_db", None, None, None)
    /\ kind = "boost_counts"
    /\ initialized = TRUE
    /\ db_guild_settings = [g \in Guilds |-> None]
    /\ db_user_settings = [u \in Users |-> None]
    /\ db_guild_boosts \in [Guilds -> BoostCounts]
    /\ guild_settings = <<>> /\ user_settings = <<>>
    /\ boost_counts = LoadRows(<<>>, db_guild_boosts, {g \in Guilds : db_guild_boosts[g] > 0}, 0)
    /\ dictionaries = <<>> /\ global_dict = None /\ active_voice_guilds = {}
    /\ db_dict = [g \in DictIds |-> None]
    /\ notifications = <<>>
    /\ global_set = None
    /\ listener_connection = "open" /\ listener_healthy = TRUE
    /\ reconnect_attempts = 0 /\ cache_version = 0
    /\ shutdown = FALSE /\ reconnecting = FALSE
    /\ boost_txns = [w \in Writers |-> NoTxn]
    /\ listener_task = "running"
    /\ NoTasks

\* rows of g that an open transaction has deleted and still locks
LockedRows(g) ==
    Cardinality({w \in Writers : boost_txns[w] # NoTxn /\ boost_txns[w].guild = g
                                 /\ boost_txns[w].delta < 0})

\* the boost count cache of this process after a writer's write-through
write_through_boost(cache, w, g, count, t) ==
    IF w = "local" THEN lru_set(cache, g, count, MAX_BOOST_COUNTS, BOOST_COUNT_TTL, t)
    ELSE cache

\* activate_guild_boost up to the end of the transaction body: the row is
\* inserted, the new count is written through, the commit is still to come
\* (history, result: the count this process had cached before the call)
ActivateGuildBoost(w, g) ==
    LET new_count == db_guild_boosts[g] - LockedRows(g) + 1
    IN  /\ initialized /\ kind = "boost_counts"
        /\ boost_txns[w] = NoTxn
        /\ db_guild_boosts[g] - LockedRows(g) < max_boosts
        /\ boost_txns' = [boost_txns EXCEPT ![w] = BoostTxn(g, 1, new_count)]
        /\ boost_counts' = write_through_boost(boost_counts, w, g, new_count, now)
        /\ last' = [DbOp("activate_guild_boost", g, new_count,
                         lru_get_value(boost_counts, g, BOOST_COUNT_TTL, now), 0, TRUE)
                    EXCEPT !.tag = IF w = "local" THEN "local_boost_call"
                                   ELSE "activate_guild_boost"]
        /\ UNCHANGED <<now, lruVars, kind, initialized, guild_settings, user_settings,
                       dictionaries, global_dict, active_voice_guilds, dbVars, notifications,
                       global_set, listener_connection, listener_healthy, reconnect_attempts,
                       cache_version, shutdown, reconnecting, extVars>>

\* deactivate_guild_boost up to the end of the transaction body
DeactivateGuildBoost(w, g) ==
    LET new_count == db_guild_boosts[g] - LockedRows(g) - 1
    IN  /\ initialized /\ kind = "boost_counts"
        /\ boost_txns[w] = NoTxn
        /\ db_guild_boosts[g] - LockedRows(g) >= 1
        /\ boost_txns' = [boost_txns EXCEPT ![w] = BoostTxn(g, 0 - 1, new_count)]
        /\ boost_counts' = write_through_boost(boost_counts, w, g, new_count, now)
        /\ last' = [DbOp("deactivate_guild_boost", g, new_count,
                         lru_get_value(boost_counts, g, BOOST_COUNT_TTL, now), 0, TRUE)
                    EXCEPT !.tag = IF w = "local" THEN "local_boost_call"
                                   ELSE "deactivate_guild_boost"]
        /\ UNCHANGED <<now, lruVars, kind, initialized, guild_settings, user_settings,
                       dictionaries, global_dict, active_voice_guilds, dbVars, notifications,
                       global_set, listener_connection, listener_healthy, reconnect_attempts,
                       cache_version, shutdown, reconnecting, extVars>>

\* conn.transaction().__aexit__ commits: the row change becomes visible and
\* the payload is delivered to the listeners
BoostCommit(w) ==
    LET txn == boost_txns[w]
    IN  /\ txn # NoTxn
        /\ CanDeliver(MaxBoostPending)
        /\ db_guild_boosts' = [db_guild_boosts EXCEPT ![txn.guild] = @ + txn.delta]
        /\ notifications' = Deliver(notifications,
               Notification("guild_boosts", IF txn.delta > 0 THEN "INSERT" ELSE "DELETE",
                            txn.guild, txn.count))
        /\ boost_txns' = [boost_txns EXCEPT ![w] = NoTxn]
        /\ last' = DbOp("commit", txn.guild, None, None, 0, TRUE)
        /\ UNCHANGED <<now, lruVars, kind, initialized, cacheVars, global_set,
                       db_guild_settings, db_user_settings, db_dict,
                       listener_connection, listener_healthy, reconnect_attempts,
                       cache_version, shutdown, reconnecting, extVars>>

\* the commit fails (connection lost): the row change is undone and no payload
\* is sent, what was written through stays in the cache
BoostRollback(w) ==
    /\ boost_txns[w] # NoTxn
    /\ boost_txns' = [boost_txns EXCEPT ![w] = NoTxn]
    /\ last' = DbOp("rollback", boost_txns[w].guild, None, None, 0, FALSE)
    /\ UNCHANGED <<now, lruVars, kind, initialized, cacheVars, global_set, dbVars, notifications,
                   listener_connection, listener_healthy, reconnect_attempts,
                   cache_version, shutdown, reconnecting, extVars>>

\* delete_guild_boosts_by_guild: one statement in its own transaction, which
\* waits for rows another transaction locks; the deleted rows' payloads are
\* identical, so PostgreSQL delivers one
DeleteGuildBoostsByGuild(w, g) ==
    /\ initialized /\ kind = "boost_counts"
    /\ boost_txns[w] = NoTxn
    /\ LockedRows(g) = 0
    /\ db_guild_boosts[g] > 0 => CanDeliver(MaxBoostPending)
    /\ db_guild_boosts' = [db_guild_boosts EXCEPT ![g] = 0]
    /\ notifications' = IF db_guild_boosts[g] > 0
                        THEN Deliver(notifications, Notification("guild_boosts", "DELETE", g, 0))
                        ELSE notifications
    /\ boost_counts' = write_through_boost(boost_counts, w, g, 0, now)
    /\ last' = DbOp("delete_guild_boosts_by_guild", g, 0, None, 0, TRUE)
    /\ UNCHANGED <<now, lruVars, listenerVars, kind, initialized, guild_settings, user_settings,
                   dictionaries, global_dict, active_voice_guilds, global_set,
                   db_guild_settings, db_user_settings, db_dict, extVars>>

NextBoost ==
    \/ DbTick
    \/ \E w \in Writers, g \in BoostedGuilds : ActivateGuildBoost(w, g)
    \/ \E w \in Writers, g \in BoostedGuilds : DeactivateGuildBoost(w, g)
    \/ \E w \in Writers : BoostCommit(w)
    \/ \E w \in Writers : BoostRollback(w)
    \/ \E w \in Writers, g \in BoostedGuilds : DeleteGuildBoostsByGuild(w, g)
    \/ \E g \in Guilds, fail \in BOOLEAN : GetGuildBoostCount(g, fail)
    \/ \E fail \in BOOLEAN : HandleNotification(fail)

SpecBoost == InitBoost /\ [][NextBoost]_vars

\* the value the boost count cache holds for g, None when it holds none
CachedBoostCount(g) == lru_get_value(boost_counts, g, BOOST_COUNT_TTL, now)

\* C12: a guild_boosts event with payload {count: c} leaves exactly c cached
\* for its guild, whatever was cached before, and a get_guild_boost_count that
\* follows it returns c without a read; so does the same event delivered twice.
C12_BoostEventSetsAbsolute ==
    /\ last.tag = "boost_event" => CachedBoostCount(last.id) = last.value
    /\ (last.op = "get_guild_boost_count" /\ last.follows = "boost_event")
           => (last.ok /\ last.reads = 0 /\ last.result = last.prev)

\* no transaction on guild_boosts is open, every payload was handled and the
\* listener is healthy
BoostQuiescent ==
    /\ \A w \in Writers : boost_txns[w] = NoTxn
    /\ notifications = <<>>
    /\ listener_healthy

\* C13: whenever no write to guild_boosts is in flight, every event was handled
\* and the listener is healthy, each cached boost count equals the number of
\* rows storage holds for its guild.
C13_BoostCountsConverge ==
    BoostQuiescent => \A g \in Guilds : CachedBoostCount(g) # None
                                           => CachedBoostCount(g) = db_guild_boosts[g]

\* C33: activate_guild_boost and deactivate_guild_boost set the cached boost
\* count to the count of a committed state only: when the transaction of the
\* call does not commit, the cached count of the guild is what it was before
\* the call
C33_RolledBackCallKeepsCache ==
    [][(/\ last.tag = "local_boost_call"
        /\ last'.op = "rollback"
        /\ boost_txns["local"] # NoTxn /\ boost_txns'["local"] = NoTxn)
          => lru_get_value(boost_counts', last.id, BOOST_COUNT_TTL, now') = last.result]_vars

\* ------------------------------------------ listener keep-alive and resync
\* consecutive reconnect attempts allowed and resync passes explored
MaxAttempts == 2
MaxVersion == 1

\* Database.MAX_RECONNECT_ATTEMPTS (10 in the source, scaled down)
MAX_RECONNECT_ATTEMPTS == MaxAttempts

\* the state after init_db on a database that holds any dictionaries and any
\* boosts of the boosted guilds: rows loaded, listener started
InitListener ==
    /\ now = 0
    /\ lru_data = <<>> /\ lru_max_size = ScaledCapacity /\ lru_ttl = ScaledTTL
    /\ set_at = [k \in Keys |-> None]
    /\ accessed_at = [k \in Keys |-> None]
    /\ last = Op("init_db", None, None, None)
    /\ kind \in {"dict", "boost_counts"}
    /\ initialized = TRUE
    /\ db_guild_settings = [g \in Guilds |-> None]
    /\ db_user_settings = [u \in Users |-> None]
    /\ db_guild_boosts \in [Guilds -> {0, 1}]
    /\ \A g \in Guilds : (kind # "boost_counts" \/ g \notin BoostedGuilds) => db_guild_boosts[g] = 0
    /\ db_dict \in [DictIds -> IF kind = "dict" THEN DictValues \cup {None} ELSE {None}]
    /\ guild_settings = <<>> /\ user_settings = <<>>
    /\ boost_counts = LoadRows(<<>>, db_guild_boosts, {g \in Guilds : db_guild_boosts[g] > 0}, 0)
    /\ dictionaries = <<>>
    /\ global_dict = IF db_dict[global_dict_id] # None
                     THEN cache_set_dict_sync(<<>>, None, global_dict_id, db_dict[global_dict_id], 0)[2]
                     ELSE None
    /\ active_voice_guilds = {}
    /\ notifications = <<>>
    /\ global_set = global_dict
    /\ listener_connection = "open" /\ listener_healthy = TRUE
    /\ reconnect_attempts = 0 /\ cache_version = 0
    /\ shutdown = FALSE /\ reconnecting = FALSE
    /\ boost_txns = [w \in Writers |-> NoTxn]
    /\ listener_task = "running"
    /\ NoTasks

\* the listener connection is lost (server restart, network failure)
ConnectionDrop ==
    /\ listener_connection \in LiveConnections
    /\ listener_connection' = "closed"
    /\ last' = Op("connection_drop", None, None, None)
    /\ UNCHANGED <<now, lruVars, kind, initialized, cacheVars, dbVars, notifications, global_set,
                   listener_healthy, reconnect_attempts, cache_version, shutdown, reconnecting,
                   boost_txns, extVars>>

\* one round of _keep_listener_alive that finds the connection missing or
\* closed: the listener is marked unhealthy and _reconnect_listener is entered
HealthCheck ==
    /\ ~shutdown /\ ~reconnecting
    /\ listener_connection \notin LiveConnections
    /\ listener_healthy' = FALSE
    /\ reconnecting' = TRUE
    /\ last' = Op("health_check", None, None, None)
    /\ UNCHANGED <<now, lruVars, kind, initialized, cacheVars, dbVars, notifications, global_set,
                   listener_connection, reconnect_attempts, cache_version, shutdown, boost_txns, extVars>>

\* a loop that retries until the database is closed
may_reconnect_unbounded(attempts, stopping) == ~stopping

\* the loop condition of _reconnect_listener
may_reconnect(attempts, stopping) == attempts < MAX_RECONNECT_ATTEMPTS /\ ~stopping

\* <<dictionaries, _global_dict>> after the loop over the active guilds: a
\* guild whose fetch fails is logged and skipped
RECURSIVE resync_active_dicts(_, _, _, _, _, _)
resync_active_dicts(dicts, gdict, guilds, rows, failed, t) ==
    IF guilds = {} THEN <<dicts, gdict>>
    ELSE LET g == CHOOSE i \in guilds : \A j \in guilds : i <= j
             after == IF g \in failed THEN <<dicts, gdict>>
                      ELSE cache_set_dict(dicts, gdict, g, RowOrEmpty(rows[g]), t)
         IN  resync_active_dicts(after[1], after[2], guilds \ {g}, rows, failed, t)

\* <<dictionaries, _global_dict>> after the global dictionary step: only a row
\* that exists is stored
resync_global_dict(dicts, gdict, row, t) ==
    IF global_dict_id # 0 /\ row # None THEN cache_set_dict(dicts, gdict, global_dict_id, row, t)
    ELSE <<dicts, gdict>>

\* the boost count cache after the rows of SELECT guild_id, COUNT(*) ... GROUP
\* BY guild_id were stored: a guild without a boost has no row
RECURSIVE resync_boost_counts(_, _, _, _)
resync_boost_counts(cache, counts, guilds, t) ==
    IF guilds = {} THEN cache
    ELSE LET g == CHOOSE i \in guilds : \A j \in guilds : i <= j
         IN  resync_boost_counts(
                 IF counts[g] > 0
                 THEN lru_set(cache, g, counts[g], MAX_BOOST_COUNTS, BOOST_COUNT_TTL, t)
                 ELSE cache,
                 counts, guilds \ {g}, t)

\* what one reconnect attempt ran into
ResyncTag(cfail, afail, dfail, gfail, bfail) ==
    IF cfail THEN "connect_failed"
    ELSE IF afail THEN "acquire_failed"
    ELSE IF gfail THEN (IF dfail = {} THEN "global_fetch_failed"
                        ELSE "guild_and_global_fetch_failed")
    ELSE IF bfail THEN (IF dfail = {} THEN "boost_fetch_failed"
                        ELSE "guild_and_boost_fetch_failed")
    ELSE IF dfail # {} THEN "guild_fetch_failed"
    ELSE "resynced"

\* one iteration of the loop of _reconnect_listener, with
\* _resync_cache_after_reconnect.  cfail: connecting fails; afail: no pool
\* connection; dfail: the active guilds whose dictionary fetch fails; gfail,
\* bfail: the global dictionary fetch, the boost query fails
ReconnectAttempt(cfail, afail, dfail, gfail, bfail) ==
    LET resyncing == ~cfail /\ ~afail
        completed == ~cfail /\ ~afail /\ ~gfail /\ ~bfail
        guildsDone == IF resyncing
                      THEN resync_active_dicts(dictionaries, global_dict, active_voice_guilds,
                                               db_dict, dfail, now)
                      ELSE <<dictionaries, global_dict>>
        dictsDone == IF resyncing /\ ~gfail
                     THEN resync_global_dict(guildsDone[1], guildsDone[2],
                                             db_dict[global_dict_id], now)
                     ELSE guildsDone
    IN  /\ reconnecting
        /\ may_reconnect(reconnect_attempts, shutdown)
        /\ ~cfail => cache_version < MaxVersion
        /\ cfail => (~afail /\ dfail = {} /\ ~gfail /\ ~bfail)
        /\ afail => (dfail = {} /\ ~gfail /\ ~bfail)
        /\ gfail => ~bfail
        /\ listener_connection' = IF cfail THEN "closed" ELSE "open"
        /\ cache_version' = IF cfail THEN cache_version ELSE cache_version + 1
        /\ dictionaries' = dictsDone[1]
        /\ global_dict' = dictsDone[2]
        /\ global_set' = IF dictsDone[2] # guildsDone[2] THEN dictsDone[2] ELSE global_set
        /\ boost_counts' = IF completed
                           THEN resync_boost_counts(boost_counts, db_guild_boosts, Guilds, now)
                           ELSE boost_counts
        /\ listener_healthy' = IF completed THEN TRUE ELSE listener_healthy
        /\ reconnect_attempts' = IF completed THEN 0 ELSE reconnect_attempts + 1
        /\ reconnecting' = ~completed
        /\ last' = [Op("reconnect", None, cache_version, cache_version') EXCEPT
                        !.ok = completed,
                        !.tag = ResyncTag(cfail, afail, dfail, gfail, bfail)]
        /\ UNCHANGED <<now, lruVars, kind, initialized, guild_settings, user_settings,
                       active_voice_guilds, dbVars, notifications, shutdown, boost_txns, extVars>>

\* _reconnect_listener leaves its loop: the attempts are used up or the
\* database is closing
ReconnectGiveUp ==
    /\ reconnecting /\ resync_pc = "idle"
    /\ ~may_reconnect(reconnect_attempts, shutdown)
    /\ reconnecting' = FALSE
    /\ last' = Op("reconnect_give_up", None, None, None)
    /\ UNCHANGED <<now, lruVars, kind, initialized, cacheVars, dbVars, notifications, global_set,
                   listener_connection, listener_healthy, reconnect_attempts, cache_version,
                   shutdown, boost_txns, extVars>>

\* a reconnect episode lasts seconds and the entries live for minutes: the
\* clock stays at one reading, Database.close is not called
NextListener ==
    \/ ConnectionDrop
    \/ HealthCheck
    \/ \E cfail, afail, gfail, bfail \in BOOLEAN, dfail \in SUBSET active_voice_guilds :
           ReconnectAttempt(cfail, afail, dfail, gfail, bfail)
    \/ ReconnectGiveUp
    \/ \E g \in DictGuilds, fail \in BOOLEAN : LoadGuildDict(g, fail)
    \/ \E g \in DictGuilds, fail \in BOOLEAN : GetDict(g, fail)
    \/ \E g \in DictIds, d \in DictValues : ExternalDictWrite(g, d)
    \/ \E g \in DictIds : ExternalDictDelete(g)
    \/ \E g \in BoostedGuilds : ActivateGuildBoost("remote", g)
    \/ BoostCommit("remote")
    \/ \E g \in BoostedGuilds : DeleteGuildBoostsByGuild("remote", g)
    \/ \E fail \in BOOLEAN : HandleNotification(fail)

SpecListener == InitListener /\ [][NextListener]_vars

\* C14: right after a reconnect whose resync pass ran without a failing fetch,
\* the cached global dictionary and the cached dictionary of every active guild
\* equal what storage holds, a deleted row counting as the empty mapping.
C14_ResyncDictsEqualStorage ==
    (last.op = "reconnect" /\ last.tag = "resynced")
        => /\ IF db_dict[global_dict_id] = None THEN global_dict \in {None, EmptyDict}
              ELSE global_dict = db_dict[global_dict_id]
           /\ \A g \in active_voice_guilds : CachedDict(g) = RowOrEmpty(db_dict[g])

\* C15: right after a reconnect whose resync pass ran without a failing fetch,
\* every cached boost count equals the number of rows storage holds for its
\* guild, also for a guild that lost all its boosts during the gap.
C15_ResyncBoostsEqualStorage ==
    (last.op = "reconnect" /\ last.tag = "resynced")
        => \A g \in Guilds : CachedBoostCount(g) # None
                                => CachedBoostCount(g) = db_guild_boosts[g]

\* C16: the cache version never decreases; a reconnect attempt that succeeds
\* adds exactly one to it and every other step, a failed attempt included,
\* leaves it unchanged.
C16_VersionCountsResyncs ==
    [][/\ cache_version' >= cache_version
       /\ (last'.op = "reconnect" /\ last'.ok) => cache_version' = cache_version + 1
       /\ ~(last'.op = "reconnect" /\ last'.ok) => cache_version' = cache_version]_vars

\* C17: when exactly one dictionary fetch of a resync pass fails, the failed
\* identifier keeps its cached value, the other dictionaries are stored from
\* storage and the boost counts are stored as in a pass without a failure.
C17_FetchFailureIsolated ==
    [][/\ (last'.op = "reconnect" /\ last'.tag = "guild_fetch_failed")
              => /\ dictionaries' = dictionaries
                 /\ db_dict[global_dict_id] # None => global_dict' = db_dict[global_dict_id]
                 /\ boost_counts' = resync_boost_counts(boost_counts, db_guild_boosts, Guilds, now)
       /\ (last'.op = "reconnect" /\ last'.tag = "global_fetch_failed")
              => /\ global_dict' = global_dict
                 /\ \A g \in active_voice_guilds :
                        cache_get_dict(dictionaries', global_dict', g, now') = RowOrEmpty(db_dict[g])
                 /\ boost_counts' = resync_boost_counts(boost_counts, db_guild_boosts, Guilds, now)
      ]_vars

\* C18: the attempt counter never exceeds MAX_RECONNECT_ATTEMPTS; once it has
\* reached it no step is a reconnect attempt, the counter stays, no connection
\* is opened, and a get_dict of a cached dictionary returns it without a read.
C18_ReconnectAttemptsCapped ==
    [][/\ reconnect_attempts' <= MAX_RECONNECT_ATTEMPTS
       /\ reconnect_attempts = MAX_RECONNECT_ATTEMPTS
              => /\ last'.op # "reconnect"
                 /\ reconnect_attempts' = reconnect_attempts
                 /\ listener_connection' = "open" => listener_connection = "open"
                 /\ (last'.op = "get_dict" /\ CachedDict(last'.id) # None)
                        => (last'.ok /\ last'.reads = 0 /\ last'.result = CachedDict(last'.id))
      ]_vars

\* with the attempts used up and the connection closed, get_dict served a
\* cached dictionary that storage no longer holds in that form
C18_Witness ==
    /\ reconnect_attempts = MAX_RECONNECT_ATTEMPTS /\ ~reconnecting
    /\ listener_connection = "closed" /\ ~listener_healthy
    /\ last.op = "get_dict" /\ last.ok /\ last.reads = 0
    /\ last.result # RowOrEmpty(db_dict[last.id])

\* ------------------------------------------------ payloads of settings_change
\* an id field int() rejects, a profile that is no {speaker, speed, pitch}
\* object, a table without a handler
NonNumeric == 0 - 2
MalformedProfile == 0
KnownTables == {"guild_settings", "user_settings", "guild_boosts", "dict"}

\* the table whose events change the cache of an entity kind
TableOf(k) == IF k = "boost_counts" THEN "guild_boosts" ELSE k

\* what a payload can carry as the data of a table
PayloadData(table) ==
    IF table = "guild_settings" THEN SettingsValues \cup {None, Undecodable}
    ELSE IF table = "user_settings" THEN Profiles \cup {MalformedProfile, None, Undecodable}
    ELSE IF table = "guild_boosts" THEN BoostCounts \cup {None, Undecodable}
    ELSE {None}

\* json: "invalid" is text json.loads rejects, "not_object" JSON that is no
\* object (null, a list, a number), "object" an object with these four fields,
\* None for a missing one
Payload(json, table, operation, id, data) ==
    [json |-> json, table |-> table, operation |-> operation, id |-> id, data |-> data]

\* TG_OP of the payload; INSERT is handled as UPDATE is
Operations == {"UPDATE", "DELETE"}

\* the payloads that can reach the handler on the channel for a table: text
\* that is no JSON object, objects of a table without a handler, objects whose
\* id is missing or not a number, and objects of the table with any data
Payloads(table) ==
    {Payload("invalid", table, "UPDATE", None, None),
     Payload("not_object", table, "UPDATE", None, None)}
    \cup {Payload("object", "unknown", operation, id, None) :
              operation \in Operations, id \in {1, None}}
    \cup {Payload("object", table, operation, id, None) :
              operation \in Operations, id \in {None, NonNumeric}}
    \cup {Payload("object", table, "DELETE", id, None) :
              id \in (IF table = "dict" THEN DictIds ELSE Guilds)}
    \cup {Payload("object", table, "UPDATE", id, data) :
              id \in (IF table = "dict" THEN DictIds ELSE Guilds),
              data \in PayloadData(table)}

\* the body of the try block of _handle_notification raises: json.loads, .get
\* on a non-object, int() of the id, or int(None) in the cache of a handler
body_raises(p) ==
    \/ p.json # "object"
    \/ p.id = NonNumeric
    \/ p.id = None /\ p.table \in KnownTables

\* a handler without the except clause
handle_notification_unguarded(raised) == raised

\* _handle_notification raises: except Exception logs what the body raised
handle_notification_raises(raised) == FALSE

\* _handle_notification(payload) for any payload on the channel
HandlePayload(p, fail) ==
    LET raised == body_raises(p)
        fetches == /\ ~raised /\ p.table = "dict" /\ p.id = global_dict_id
                   /\ p.operation # "DELETE"
        after == IF raised
                 THEN <<guild_settings, user_settings, boost_counts, dictionaries, global_dict>>
                 ELSE handle_notification(p, fail)
        rec == DbOp("payload", p.id, p.data, None, IF fetches THEN 1 ELSE 0,
                    ~handle_notification_raises(raised))
    IN  /\ initialized
        /\ (fail => fetches)
        /\ guild_settings' = after[1]
        /\ user_settings' = after[2]
        /\ boost_counts' = after[3]
        /\ dictionaries' = after[4]
        /\ global_dict' = after[5]
        /\ global_set' = IF ~raised /\ p.table = "dict" /\ p.id = global_dict_id
                            /\ ~(fetches /\ fail)
                         THEN after[5] ELSE global_set
        /\ last' = [rec EXCEPT !.tag = IF raised THEN "raised"
                                       ELSE IF fetches /\ fail THEN "reload_failed"
                                       ELSE IF p.table \notin KnownTables THEN "unknown_table"
                                       ELSE IF p.operation = "DELETE" THEN "delete_event"
                                       ELSE "upsert_event"]
        /\ UNCHANGED <<now, lruVars, listenerVars, kind, initialized, active_voice_guilds, dbVars,
                       notifications, extVars>>

NextNotify ==
    \/ LoadInitialData
    \/ DbTick
    \/ \E g \in Guilds, fail \in BOOLEAN : GetGuildSettings(g, fail)
    \/ \E u \in Users, fail \in BOOLEAN : GetUserSetting(u, fail)
    \/ \E g \in Guilds, fail \in BOOLEAN : GetGuildBoostCount(g, fail)
    \/ \E g \in DictIds, fail \in BOOLEAN : GetDict(g, fail)
    \/ \E g \in DictGuilds, fail \in BOOLEAN : LoadGuildDict(g, fail)
    \/ \E p \in Payloads(TableOf(kind)), fail \in BOOLEAN : HandlePayload(p, fail)

SpecNotify == Init /\ [][NextNotify]_vars

\* C19: _handle_notification returns normally for every payload, and a payload
\* whose table has no handler leaves the four caches, the global dictionary
\* and the active set as they were.
C19_HandlerNeverRaises ==
    [][last'.op = "payload"
          => /\ last'.ok
             /\ last'.tag = "unknown_table" => UNCHANGED cacheVars]_vars

\* a payload whose body raised (invalid JSON, a non-numeric or missing id) was
\* handled without raising while the cache of its kind held an entry
C19_Witness ==
    /\ last.op = "payload" /\ last.tag = "raised" /\ last.ok
    /\ (guild_settings # <<>> \/ user_settings # <<>> \/ boost_counts # <<>>
            \/ dictionaries # <<>>)

\* the data cannot be decoded or validated for the kind: null, undecodable
\* text, settings GuildSettings rejects, a profile that is no profile
InvalidData(k, data) ==
    \/ data \in {None, Undecodable}
    \/ k = "guild_settings" /\ ~model_validate_ok(data)
    \/ k = "user_settings" /\ data \notin Profiles

\* C20: after an INSERT or UPDATE event of guild settings or user settings
\* whose data cannot be decoded or validated, the cache holds no entry for the
\* key, as after a DELETE event, and a get that follows misses the cache.
C20_InvalidPayloadInvalidates ==
    /\ (/\ last.op = "payload" /\ last.tag = "upsert_event"
        /\ kind \in {"guild_settings", "user_settings"}
        /\ InvalidData(kind, last.value))
           => ~HasKey(IF kind = "guild_settings" THEN guild_settings ELSE user_settings, last.id)
    /\ (/\ last.op \in {"get_guild_settings", "get_user_setting"}
        /\ last.follows = "upsert_event" /\ InvalidData(kind, last.prev))
           => last.reads = 1


\* ------------------------------------------------------------------ eviction order
\* the dict of LRUCache.set right after self._data[key] = entry
AfterPut == PutEntry(lru_data, CacheEntry(last'.id, last'.value, now))

\* the entries of AfterPut that are not expired
LiveAfterPut == DelKeys(AfterPut, ExpiredKeys(AfterPut, lru_ttl, now))

\* C24: when a set runs the eviction (the dict is over capacity), no expired
\* entry is left afterwards, and an entry that was not expired is removed only
\* if the entries that are not expired alone exceed the capacity
C24_ExpiredBeforeLRU ==
    [][(last'.op = "set" /\ kind = "lru" /\ Len(AfterPut) > lru_max_size) =>
          /\ ExpiredKeys(AfterPut, lru_ttl, now) \cap KeySet(lru_data') = {}
          /\ (KeySet(LiveAfterPut) \ KeySet(lru_data') # {}
                 => Len(LiveAfterPut) > lru_max_size)]_vars

C24_Witness ==
    /\ last.op = "set" /\ kind = "lru"
    /\ last.expired > 0
    /\ last.evicted > 0


\* ------------------------------------------------------------------ settings events
\* the cache of the settings kind under test
CachedSettings == IF kind = "guild_settings" THEN guild_settings ELSE user_settings

\* the caches an event of the settings kind under test has no business with
OtherCaches ==
    <<IF kind = "guild_settings" THEN user_settings ELSE guild_settings,
      boost_counts, dictionaries, global_dict, active_voice_guilds>>

\* C25: an INSERT or UPDATE event of guild settings or user settings with a
\* valid payload leaves the cached value of its id equal to the payload, a
\* DELETE event leaves its id absent, and the entries of the other ids and the
\* other caches are unchanged
C25_EventReplacesEntry ==
    [][(/\ last'.op = "payload"
        /\ kind \in {"guild_settings", "user_settings"}
        /\ last'.tag \in {"upsert_event", "delete_event"}
        /\ last'.id \in Guilds
        /\ (last'.tag = "upsert_event" => ~InvalidData(kind, last'.value)))
       => /\ (last'.tag = "upsert_event" =>
                 /\ HasKey(CachedSettings', last'.id)
                 /\ CachedSettings'[IndexOf(CachedSettings', last'.id)].value = last'.value)
          /\ (last'.tag = "delete_event" => ~HasKey(CachedSettings', last'.id))
          /\ DelKeys(CachedSettings', {last'.id}) = DelKeys(CachedSettings, {last'.id})
          /\ OtherCaches' = OtherCaches]_vars


\* ------------------------------------------------------------------ dictionary events
\* C26: a dictionary event for an id that is neither the global id nor in the
\* active set changes no cache (the dictionary cache, the global dictionary,
\* the active set and the other caches stay as they were) and fetches nothing
C26_InactiveDictEventIgnored ==
    [][(/\ last'.op = "payload" /\ kind = "dict"
        /\ last'.tag \in {"upsert_event", "delete_event"}
        /\ last'.id \in DictIds \ {global_dict_id}
        /\ last'.id \notin active_voice_guilds)
       => /\ UNCHANGED cacheVars
          /\ last'.reads = 0]_vars

C26_Witness ==
    /\ last.op = "payload" /\ kind = "dict"
    /\ last.tag = "upsert_event"
    /\ last.id \in DictIds \ {global_dict_id}
    /\ last.id \notin active_voice_guilds
    /\ db_dict[last.id] # None
    /\ global_dict # None

\* C27: an INSERT or UPDATE event for the global id fetches the global
\* dictionary once inside the handler and leaves the cached global dictionary
\* equal to the stored one; when the fetch fails the cached global dictionary
\* and the dictionary cache stay as they were; the handler raises in neither case
C27_GlobalDictEventReloads ==
    [][(/\ last'.op = "payload" /\ kind = "dict"
        /\ last'.id = global_dict_id
        /\ last'.tag \in {"upsert_event", "reload_failed"})
       => /\ last'.ok
          /\ last'.reads = 1
          /\ (last'.tag = "upsert_event" =>
                 global_dict' = RowOrEmpty(db_dict[global_dict_id]))
          /\ (last'.tag = "reload_failed" =>
                 global_dict' = global_dict /\ dictionaries' = dictionaries)]_vars

\* a reload that fetched the stored global dictionary, not an empty one
C27_Witness ==
    /\ last.op = "payload" /\ kind = "dict"
    /\ last.id = global_dict_id
    /\ last.tag = "upsert_event"
    /\ db_dict[global_dict_id] = 1
    /\ global_dict = db_dict[global_dict_id]


\* ------------------------------------------------- reconnect, await by await
\* resync_pc names the await at which the keep-alive task is suspended inside
\* _reconnect_listener: "connect" (asyncpg.connect), "dicts" (fetchrow of the
\* next active guild), "store" (the row is fetched, set_dict not yet run),
\* "global" (fetchrow of the global dictionary), "boosts" (the COUNT query),
\* "backoff" (the sleep after a failed attempt); "idle" is the head of the loop
PassSteps == {"dicts", "store", "global", "boosts"}

InitResync ==
    /\ InitListener
    /\ kind = "dict"

\* the keep-alive task runs and is inside _reconnect_listener
InReconnect == listener_task = "running" /\ reconnecting

\* an attempt that leaves the old connection as it is
close_old_connection_skipped(conn) == conn

\* the cleanup of the old connection: an open one is closed; a close() that
\* raises has aborted the connection, which is closed all the same
close_old_connection(conn) == IF conn \in LiveConnections THEN "closed" ELSE conn

\* the head of the loop of _reconnect_listener: the attempt is counted, an
\* open old connection is closed, asyncpg.connect is awaited
ReconnectBegin ==
    /\ InReconnect /\ resync_pc = "idle"
    /\ may_reconnect(reconnect_attempts, shutdown)
    /\ reconnect_attempts' = reconnect_attempts + 1
    /\ listener_connection' = close_old_connection(listener_connection)
    /\ resync_pc' = "connect"
    /\ last' = [Op("reconnect_begin", None, reconnect_attempts, None) EXCEPT
                    !.tag = IF listener_connection \in LiveConnections
                            THEN "closed_old_connection" ELSE "reconnect_begin"]
    /\ UNCHANGED <<now, lruVars, kind, initialized, cacheVars, dbVars, notifications, global_set,
                   listener_healthy, cache_version, shutdown, reconnecting, boost_txns,
                   listener_task, inflight, handlers, slotVars,
                   orphan_connections, voiceVars>>

\* asyncpg.connect returns or raises (cfail) and the connection is assigned;
\* add_listener registers the callback (lfail: it raises, the connection stays
\* assigned and open); then the cache version is incremented and a pool
\* connection acquired (afail: that raises), and the active guilds are read
ConnectDone(cfail, lfail, afail) ==
    LET failed == cfail \/ lfail \/ afail
    IN  /\ InReconnect /\ resync_pc = "connect"
        /\ cfail => (~lfail /\ ~afail)
        /\ lfail => ~afail
        /\ (~cfail /\ ~lfail) => cache_version < MaxVersion
        /\ listener_connection' = IF cfail THEN listener_connection
                                   ELSE IF lfail THEN "silent" ELSE "open"
        /\ cache_version' = IF cfail \/ lfail THEN cache_version ELSE cache_version + 1
        /\ orphan_connections' = IF cfail THEN orphan_connections
                                  ELSE orphaned_by_assignment(listener_connection,
                                                              orphan_connections)
        /\ resync_pc' = IF failed THEN "backoff"
                         ELSE IF active_voice_guilds = {} THEN "global" ELSE "dicts"
        /\ inflight' = [inflight EXCEPT !["resync"] =
                            IF failed THEN NoCall
                            ELSE [NoCall EXCEPT !.todo = active_voice_guilds]]
        /\ last' = [Follow(Op("connect", None, cache_version, cache_version')) EXCEPT
                        !.ok = ~failed,
                        !.tag = IF cfail THEN "connect_failed"
                                ELSE IF lfail THEN "add_listener_failed"
                                ELSE IF afail THEN "acquire_failed" ELSE "connected"]
        /\ UNCHANGED <<now, lruVars, kind, initialized, cacheVars, dbVars, notifications,
                       global_set, listener_healthy, reconnect_attempts, shutdown,
                       reconnecting, boost_txns, listener_task, handlers, slotVars,
                       voiceVars>>

\* the guild the loop over the active guilds handles next
NextGuild(todo) == CHOOSE g \in todo : \A h \in todo : g <= h

\* where the pass stands once guild g is done
AfterGuild(todo, g) == IF todo \ {g} = {} THEN "global" ELSE "dicts"

\* conn.fetchrow(GET_DICT, guild_id) of the loop: the row is read now; a
\* failure is logged and the guild skipped
ResyncFetchDict(fail) ==
    LET call == inflight["resync"]
        g == NextGuild(call.todo)
    IN  /\ InReconnect /\ resync_pc = "dicts"
        /\ inflight' = [inflight EXCEPT !["resync"] =
                            IF fail THEN [call EXCEPT !.todo = call.todo \ {g}]
                            ELSE [call EXCEPT !.id = g, !.value = db_dict[g]]]
        /\ resync_pc' = IF fail THEN AfterGuild(call.todo, g) ELSE "store"
        /\ last' = [DbOp("resync_fetch", g, None, IF fail THEN None ELSE db_dict[g], 1, ~fail)
                        EXCEPT !.tag = IF fail THEN "guild_fetch_failed" ELSE "resync_fetch"]
        /\ UNCHANGED <<now, lruVars, kind, initialized, cacheVars, dbVars, notifications,
                       global_set, listenerVars, listener_task, handlers, slotVars,
                   orphan_connections, voiceVars>>

\* the task resumes with the fetched row and runs set_dict
ResyncStoreDict ==
    LET call == inflight["resync"]
        after == cache_set_dict(dictionaries, global_dict, call.id, RowOrEmpty(call.value), now)
    IN  /\ InReconnect /\ resync_pc = "store"
        /\ dictionaries' = after[1]
        /\ global_dict' = after[2]
        /\ inflight' = [inflight EXCEPT !["resync"] =
                            [NoCall EXCEPT !.todo = call.todo \ {call.id},
                                           !.stored = call.stored \cup {call.id}]]
        /\ resync_pc' = AfterGuild(call.todo, call.id)
        /\ last' = Op("resync_store", call.id, RowOrEmpty(call.value), None)
        /\ UNCHANGED <<now, lruVars, kind, initialized, guild_settings, user_settings,
                       boost_counts, active_voice_guilds, dbVars, notifications, global_set,
                       listenerVars, listener_task, handlers, slotVars,
                   orphan_connections, voiceVars>>

\* the global dictionary is fetched and, when it has a row, stored; a failure
\* ends the pass and the attempt
ResyncGlobal(fail) ==
    LET after == IF fail THEN <<dictionaries, global_dict>>
                 ELSE resync_global_dict(dictionaries, global_dict, db_dict[global_dict_id], now)
    IN  /\ InReconnect /\ resync_pc = "global"
        /\ dictionaries' = after[1]
        /\ global_dict' = after[2]
        /\ global_set' = IF after[2] # global_dict THEN after[2] ELSE global_set
        /\ resync_pc' = IF fail THEN "backoff" ELSE "boosts"
        /\ UNCHANGED inflight
        /\ last' = [DbOp("resync_global", global_dict_id, None, None, 1, ~fail)
                        EXCEPT !.tag = IF fail THEN "global_fetch_failed" ELSE "resync_global"]
        /\ UNCHANGED <<now, lruVars, kind, initialized, guild_settings, user_settings,
                       boost_counts, active_voice_guilds, dbVars, notifications,
                       listenerVars, listener_task, handlers, slotVars,
                   orphan_connections, voiceVars>>

\* a successful attempt that leaves the retry counter as it is
attempts_after_pass_kept(fail, attempts) == attempts

\* _reconnect_attempts once the pass has ended: reset after a pass that did
\* not raise
attempts_after_pass(fail, attempts) == IF fail THEN attempts ELSE 0

\* the boost counts are fetched and stored, which ends the pass; the attempt
\* succeeded: healthy, attempts reset, _reconnect_listener returns
ResyncBoosts(fail) ==
    /\ InReconnect /\ resync_pc = "boosts"
    /\ boost_counts' = IF fail THEN boost_counts
                        ELSE resync_boost_counts(boost_counts, db_guild_boosts, Guilds, now)
    /\ listener_healthy' = IF fail THEN listener_healthy ELSE TRUE
    /\ reconnect_attempts' = attempts_after_pass(fail, reconnect_attempts)
    /\ reconnecting' = fail
    /\ resync_pc' = IF fail THEN "backoff" ELSE "idle"
    /\ last' = [DbOp("resync_boosts", None, None, None, 1, ~fail)
                    EXCEPT !.tag = IF fail THEN "boost_fetch_failed" ELSE "resynced"]
    /\ UNCHANGED <<now, lruVars, kind, initialized, guild_settings, user_settings, dictionaries,
                   global_dict, active_voice_guilds, dbVars, notifications, global_set,
                   listener_connection, cache_version, shutdown, boost_txns,
                   listener_task, inflight, handlers, slotVars,
                   orphan_connections, voiceVars>>

\* asyncio.sleep(LISTENER_RECONNECT_DELAY) after a failed attempt returns
ReconnectBackoff ==
    /\ InReconnect /\ resync_pc = "backoff"
    /\ resync_pc' = "idle"
    /\ last' = Op("backoff", None, None, None)
    /\ UNCHANGED <<now, lruVars, kind, initialized, cacheVars, dbVars, notifications, global_set,
                   listenerVars, listener_task, inflight, handlers, slotVars,
                   orphan_connections, voiceVars>>

\* a close() that leaves the keep-alive task running
cancel_task_skipped(task) == task

\* self._listener_task.cancel() and the await of the task: CancelledError is
\* thrown into the task at the await it is suspended at; no except Exception
\* on the way catches it, _keep_listener_alive catches it and leaves its loop
cancel_task(task) == IF task = "running" THEN "done" ELSE task

\* Database.close
Close ==
    LET task == cancel_task(listener_task)
        cancelled == task # "running"
    IN  /\ ~shutdown
        /\ shutdown' = TRUE
        /\ listener_task' = task
        /\ reconnecting' = IF cancelled THEN FALSE ELSE reconnecting
        /\ resync_pc' = IF cancelled THEN "idle" ELSE resync_pc
        /\ inflight' = IF cancelled THEN [inflight EXCEPT !["resync"] = NoCall] ELSE inflight
        /\ listener_connection' = IF listener_connection \in LiveConnections THEN "closed"
                                   ELSE listener_connection
        /\ last' = [Op("close", None, None, None) EXCEPT
                        !.tag = IF resync_pc \in PassSteps THEN "close_during_pass"
                                ELSE IF reconnecting THEN "close_during_reconnect"
                                ELSE IF reconnect_attempts >= MAX_RECONNECT_ATTEMPTS
                                     THEN "close_after_give_up"
                                ELSE "close"]
        /\ UNCHANGED <<now, lruVars, kind, initialized, cacheVars, dbVars, notifications,
                       global_set, listener_healthy, reconnect_attempts, cache_version,
                       boost_txns, handlers, slotVars,
                   orphan_connections, voiceVars>>

NextResync ==
    \/ ConnectionDrop
    \/ HealthCheck
    \/ ReconnectBegin
    \/ \E cfail, lfail, afail \in BOOLEAN : ConnectDone(cfail, lfail, afail)
    \/ \E fail \in BOOLEAN : ResyncFetchDict(fail)
    \/ ResyncStoreDict
    \/ \E fail \in BOOLEAN : ResyncGlobal(fail)
    \/ \E fail \in BOOLEAN : ResyncBoosts(fail)
    \/ ReconnectBackoff
    \/ ReconnectGiveUp
    \/ Close
    \/ \E g \in DictGuilds, fail \in BOOLEAN : LoadGuildDict(g, fail)
    \/ \E g \in DictIds, d \in DictValues : ExternalDictWrite(g, d)
    \/ \E g \in DictIds : ExternalDictDelete(g)
    \/ \E fail \in BOOLEAN : HandleNotification(fail)

SpecResync == InitResync /\ [][NextResync]_vars


\* ------------------------------------------------------------------ shutdown
\* the steps of the keep-alive task
KeepAliveOps ==
    {"health_check", "reconnect_begin", "connect", "resync_fetch", "resync_store",
     "resync_global", "resync_boosts", "backoff", "reconnect_give_up"}

\* C21: once close() has completed, in whatever position the keep-alive task
\* was, the listener connection is not open, the keep-alive task has ended,
\* and no later step reconnects or opens a listener connection
C21_CloseEndsListener ==
    [][shutdown' =>
          /\ listener_connection' # "open"
          /\ listener_task' # "running"
          /\ last'.op \notin KeepAliveOps]_vars

\* close() hit the task inside a resync pass, on the connection it had opened
C21_Witness ==
    /\ shutdown /\ last.op = "close"
    /\ last.tag = "close_during_pass"
    /\ listener_connection = "closed"
    /\ cache_version > 0

\* C30: a close() that arrives while a resync pass is running does not
\* interrupt it: after close() the pass is still in progress, to be finished
\* by the keep-alive task, which sees the shutdown only between passes
C30_CloseWaitsForPass ==
    [][(last'.op = "close" /\ resync_pc \in PassSteps)
          => (listener_task' = "running" /\ resync_pc' \in PassSteps)]_vars

\* the listener is connected and healthy again after a completed resync pass,
\* and every delivered event has been handled
ResyncedAndQuiet ==
    /\ ~shutdown /\ ~reconnecting /\ resync_pc = "idle"
    /\ cache_version > 0
    /\ listener_connection = "open" /\ listener_healthy
    /\ notifications = <<>>

\* C29: when events of an active guild's dictionary are handled while a resync
\* pass runs, then after the pass and the handlers have finished the cached
\* dictionary of the guild is absent or equal to the stored one, never older
C29_ResyncNeverOlder ==
    ResyncedAndQuiet =>
        \A g \in active_voice_guilds \cap inflight["resync"].stored :
            CachedDict(g) \in {None, RowOrEmpty(db_dict[g])}


\* ------------------------------------------- settings get and set, await by await
\* get_guild_settings / get_user_setting and set_guild_settings /
\* set_user_setting release their pool connection between the storage round
\* trip and the cache write; inflight["get"] and inflight["set"] hold the id and
\* the value of the call that is suspended there
InitSettings ==
    /\ Init
    /\ kind \in {"guild_settings", "user_settings"}

\* the table of the settings kind under test
StoredSettings == IF kind = "guild_settings" THEN db_guild_settings ELSE db_user_settings

\* the values a writer can store for the kind under test
WritableSettings == IF kind = "guild_settings" THEN SettingsValues ELSE Profiles

\* the cache of the kind under test becomes c, the table becomes t
SettingsBecome(c, t) ==
    /\ guild_settings' = IF kind = "guild_settings" THEN c ELSE guild_settings
    /\ user_settings' = IF kind = "user_settings" THEN c ELSE user_settings
    /\ db_guild_settings' = IF kind = "guild_settings" THEN t ELSE db_guild_settings
    /\ db_user_settings' = IF kind = "user_settings" THEN t ELSE db_user_settings
    /\ UNCHANGED <<boost_counts, dictionaries, global_dict, active_voice_guilds,
                   db_guild_boosts, db_dict>>

\* the cache write of a read-through get that resumes with a fetched row: no
\* row is not cached, a guild settings row the model rejects raises before
read_through_store(cache, id, row, t) ==
    IF row = None THEN cache
    ELSE IF kind = "guild_settings" /\ ~model_validate_ok(row) THEN cache
    ELSE lru_set(cache, id, row, ScaledCapacity, ScaledTTL, t)

\* a get that misses the cache: the row is fetched (fail: the fetch raises)
GetFetch(id, fail) ==
    /\ initialized /\ kind \in {"guild_settings", "user_settings"}
    /\ inflight["get"] = NoCall
    /\ lru_get_value(CachedSettings, id, ScaledTTL, now) = None
    /\ SettingsBecome(lru_get_data(CachedSettings, id, ScaledTTL, now), StoredSettings)
    /\ inflight' = [inflight EXCEPT !["get"] =
                        IF fail THEN NoCall
                        ELSE [NoCall EXCEPT !.id = id, !.value = StoredSettings[id]]]
    /\ last' = [DbOp("get_fetch", id, None, IF fail THEN None ELSE StoredSettings[id], 1, ~fail)
                    EXCEPT !.tag = IF fail THEN "storage_error" ELSE "get_fetch"]
    /\ UNCHANGED <<now, lruVars, listenerVars, kind, initialized, notifications, global_set,
                   listener_task, resync_pc, handlers, slotVars,
                   orphan_connections, voiceVars>>

\* the get resumes and caches what it fetched
GetStore ==
    LET call == inflight["get"]
    IN  /\ call # NoCall
        /\ SettingsBecome(read_through_store(CachedSettings, call.id, call.value, now),
                          StoredSettings)
        /\ inflight' = [inflight EXCEPT !["get"] = NoCall]
        /\ last' = Op("get_store", call.id, call.value, None)
        /\ UNCHANGED <<now, lruVars, listenerVars, kind, initialized, notifications, global_set,
                       listener_task, resync_pc, handlers, slotVars,
                   orphan_connections, voiceVars>>

\* a set up to the end of its storage write, which commits and notifies
SetExecute(id, v, fail) ==
    /\ initialized /\ kind \in {"guild_settings", "user_settings"}
    /\ inflight["set"] = NoCall
    /\ CanDeliver(MaxPending)
    /\ SettingsBecome(CachedSettings,
                      IF fail THEN StoredSettings ELSE [StoredSettings EXCEPT ![id] = v])
    /\ notifications' = IF fail THEN notifications
                        ELSE Deliver(notifications,
                                Notification(kind, UpsertOp(StoredSettings[id]), id, v))
    /\ inflight' = [inflight EXCEPT !["set"] =
                        IF fail THEN NoCall ELSE [NoCall EXCEPT !.id = id, !.value = v]]
    /\ last' = DbOp("set_execute", id, v, None, 0, ~fail)
    /\ UNCHANGED <<now, lruVars, listenerVars, kind, initialized, global_set,
                   listener_task, resync_pc, handlers, slotVars,
                   orphan_connections, voiceVars>>

\* the set resumes and writes through to the cache
SetStore ==
    LET call == inflight["set"]
    IN  /\ call # NoCall
        /\ SettingsBecome(lru_set(CachedSettings, call.id, call.value, ScaledCapacity,
                                  ScaledTTL, now),
                          StoredSettings)
        /\ inflight' = [inflight EXCEPT !["set"] = NoCall]
        /\ last' = Op("set_store", call.id, call.value, None)
        /\ UNCHANGED <<now, lruVars, listenerVars, kind, initialized, notifications, global_set,
                       listener_task, resync_pc, handlers, slotVars,
                   orphan_connections, voiceVars>>

\* another process writes the row of id; bound caps the payloads waiting
ExternalSettingsWrite(id, v, bound) ==
    /\ initialized /\ kind \in {"guild_settings", "user_settings"}
    /\ CanDeliver(bound)
    /\ SettingsBecome(CachedSettings, [StoredSettings EXCEPT ![id] = v])
    /\ notifications' = Deliver(notifications,
                                Notification(kind, UpsertOp(StoredSettings[id]), id, v))
    /\ last' = Op("external_write", id, v, None)
    /\ UNCHANGED <<now, lruVars, listenerVars, kind, initialized, global_set, extVars>>

NextSettings ==
    \/ LoadInitialData
    \/ \E id \in Guilds, fail \in BOOLEAN : GetFetch(id, fail)
    \/ GetStore
    \/ \E id \in Guilds, v \in WritableSettings, fail \in BOOLEAN : SetExecute(id, v, fail)
    \/ SetStore
    \/ \E id \in Guilds, v \in WritableSettings : ExternalSettingsWrite(id, v, MaxPending)
    \/ \E fail \in BOOLEAN : HandleNotification(fail)

SpecSettings == InitSettings /\ [][NextSettings]_vars

\* no get or set is suspended and every delivered event has been handled
SettingsQuiescent ==
    /\ initialized
    /\ inflight["get"] = NoCall /\ inflight["set"] = NoCall
    /\ notifications = <<>>
    /\ listener_connection = "open" /\ listener_healthy

\* C22: with a healthy listener, once the local sets, the writes of other
\* processes, the read-through gets and the event handlers have all completed,
\* every cached guild settings entry equals the stored row of its guild, and
\* every cached user settings entry the stored row of its user
C22_SettingsConverge ==
    SettingsQuiescent =>
        \A id \in Guilds :
            HasKey(CachedSettings, id) =>
                CachedSettings[IndexOf(CachedSettings, id)].value = StoredSettings[id]


\* ------------------------------------------------------------ boosts and slots
\* activate_guild_boost and deactivate_guild_boost statement by statement, with
\* the row locks of PostgreSQL (READ COMMITTED): table users is db_users,
\* table guild_boosts is db_boost_rows by owner and db_guild_boosts by guild
MaxSlots == 2

SlotValues == (0..MaxSlots) \cup {None}

\* an open transaction of a billing call.  pc: "locked" (activate holds the
\* FOR UPDATE lock of its user row), "inserted" / "deleted" (the row change is
\* made, the commit is still to come); count: the COUNT(*) of the guild the
\* transaction saw after its change
SlotTxn(pc, u, g, count) == [pc |-> pc, user |-> u, guild |-> g, count |-> count]

NoSlotTxn == SlotTxn("none", None, None, None)

InitSlots ==
    /\ now = 0
    /\ lru_data = <<>> /\ lru_max_size = ScaledCapacity /\ lru_ttl = ScaledTTL
    /\ set_at = [k \in Keys |-> None]
    /\ accessed_at = [k \in Keys |-> None]
    /\ last = Op("init_db", None, None, None)
    /\ kind = "boost_counts"
    /\ initialized = TRUE
    /\ db_guild_settings = [g \in Guilds |-> None]
    /\ db_user_settings = [u \in Users |-> None]
    /\ db_guild_boosts = [g \in Guilds |-> 0]
    /\ guild_settings = <<>> /\ user_settings = <<>> /\ boost_counts = <<>>
    /\ dictionaries = <<>> /\ global_dict = None /\ active_voice_guilds = {}
    /\ db_dict = [g \in DictIds |-> None]
    /\ notifications = <<>>
    /\ global_set = None
    /\ listener_connection = "open" /\ listener_healthy = TRUE
    /\ reconnect_attempts = 0 /\ cache_version = 0
    /\ shutdown = FALSE /\ reconnecting = FALSE
    /\ boost_txns = [w \in Writers |-> NoTxn]
    /\ listener_task = "running"
    /\ resync_pc = "idle"
    /\ inflight = [c \in Calls |-> NoCall]
    /\ handlers = <<>>
    /\ db_users \in [Users -> SlotValues]
    /\ db_boost_rows = [u \in Users |-> [g \in Guilds |-> 0]]
    /\ slot_txns = [w \in Writers |-> NoSlotTxn]
    /\ orphan_connections = 0
    /\ queues = <<>> /\ is_processing = FALSE /\ play_tasks = <<>>
    /\ enqueued = 0 /\ dequeued = <<>>

RECURSIVE SumOver(_, _)
SumOver(f, S) ==
    IF S = {} THEN 0
    ELSE LET x == CHOOSE y \in S : TRUE IN f[x] + SumOver(f, S \ {x})

\* SELECT COUNT(*) FROM guild_boosts WHERE user_id = u, on the committed rows
OwnedRows(u) == SumOver(db_boost_rows[u], Guilds)

\* an activation that does not wait for the lock of the user row
user_row_unlocked(w, u) == TRUE

\* SELECT ... FROM users WHERE discord_id = u FOR UPDATE can proceed: no other
\* transaction holds the lock of that row
user_row_free(w, u) ==
    \A x \in Writers \ {w} :
        ~(slot_txns[x].user = u /\ slot_txns[x].pc \in {"locked", "inserted"})

\* rows of (g, u) another transaction has locked and deleted
RowsLockedByOthers(w, u, g) ==
    Cardinality({x \in Writers \ {w} :
                    slot_txns[x].pc = "deleted" /\ slot_txns[x].user = u
                    /\ slot_txns[x].guild = g})

\* activate_guild_boost up to its first statement: an unknown user ends the
\* call with False, a known one has its row locked
ActivateLock(w, u, g) ==
    /\ initialized /\ kind = "boost_counts"
    /\ slot_txns[w] = NoSlotTxn
    /\ db_users[u] # None => user_row_free(w, u)
    /\ slot_txns' = [slot_txns EXCEPT ![w] =
                        IF db_users[u] = None THEN NoSlotTxn
                        ELSE SlotTxn("locked", u, g, None)]
    /\ last' = [Op("activate_lock", u, g, IF db_users[u] = None THEN 0 ELSE None)
                    EXCEPT !.tag = IF db_users[u] = None THEN "unknown_user" ELSE "locked"]
    /\ UNCHANGED <<now, lruVars, kind, initialized, cacheVars, dbVars, notifications,
                   global_set, listenerVars, listener_task, taskVars, db_users, db_boost_rows,
                   orphan_connections, voiceVars>>

\* the rest of the transaction body: the used slots and the boosts of the
\* guild are counted; with a free slot and a guild below max_boosts the row is
\* inserted and the new count written through, otherwise the call ends with
\* False (result 0)
ActivateInsert(w) ==
    LET txn == slot_txns[w]
        used_slots == OwnedRows(txn.user)
        total_slots == db_users[txn.user]
        current_guild_boosts == db_guild_boosts[txn.guild]
        refused == used_slots >= total_slots \/ current_guild_boosts >= max_boosts
        new_count == current_guild_boosts + 1
    IN  /\ txn.pc = "locked"
        /\ slot_txns' = [slot_txns EXCEPT ![w] =
                            IF refused THEN NoSlotTxn
                            ELSE SlotTxn("inserted", txn.user, txn.guild, new_count)]
        /\ boost_counts' = IF refused THEN boost_counts
                            ELSE write_through_boost(boost_counts, w, txn.guild, new_count, now)
        /\ last' = [Op("activate", txn.user, txn.guild, IF refused THEN 0 ELSE 1)
                        EXCEPT !.tag = IF used_slots >= total_slots THEN "no_free_slot"
                                       ELSE IF refused THEN "guild_full" ELSE "inserted"]
        /\ UNCHANGED <<now, lruVars, kind, initialized, guild_settings, user_settings,
                       dictionaries, global_dict, active_voice_guilds, dbVars, notifications,
                       global_set, listenerVars, listener_task, taskVars, db_users,
                       db_boost_rows, orphan_connections, voiceVars>>

\* deactivate_guild_boost up to the end of the transaction body: one row of
\* (g, u) is locked and deleted and the new count written through; without a
\* row the call ends with False; a row another transaction locks is waited for
DeactivateDelete(w, u, g) ==
    LET found == db_boost_rows[u][g] > 0
        new_count == db_guild_boosts[g] - 1
    IN  /\ initialized /\ kind = "boost_counts"
        /\ slot_txns[w] = NoSlotTxn
        /\ found => db_boost_rows[u][g] - RowsLockedByOthers(w, u, g) > 0
        /\ slot_txns' = [slot_txns EXCEPT ![w] =
                            IF found THEN SlotTxn("deleted", u, g, new_count) ELSE NoSlotTxn]
        /\ boost_counts' = IF found THEN write_through_boost(boost_counts, w, g, new_count, now)
                            ELSE boost_counts
        /\ last' = [Op("deactivate", u, g, IF found THEN 1 ELSE 0)
                        EXCEPT !.tag = IF found THEN "deleted" ELSE "no_row"]
        /\ UNCHANGED <<now, lruVars, kind, initialized, guild_settings, user_settings,
                       dictionaries, global_dict, active_voice_guilds, dbVars, notifications,
                       global_set, listenerVars, listener_task, taskVars, db_users,
                       db_boost_rows, orphan_connections, voiceVars>>

\* the transaction commits: the row change becomes visible, the locks are
\* released, the payload of the trigger is delivered
SlotCommit(w) ==
    LET txn == slot_txns[w]
        delta == IF txn.pc = "inserted" THEN 1 ELSE 0 - 1
    IN  /\ txn.pc \in {"inserted", "deleted"}
        /\ CanDeliver(MaxPending)
        /\ db_boost_rows' = [db_boost_rows EXCEPT ![txn.user][txn.guild] = @ + delta]
        /\ db_guild_boosts' = [db_guild_boosts EXCEPT ![txn.guild] = @ + delta]
        /\ notifications' = Deliver(notifications,
               Notification("guild_boosts", IF delta > 0 THEN "INSERT" ELSE "DELETE",
                            txn.guild, txn.count))
        /\ slot_txns' = [slot_txns EXCEPT ![w] = NoSlotTxn]
        /\ last' = [Op("slot_commit", txn.user, txn.guild, 1)
                        EXCEPT !.tag = IF delta > 0 THEN "activated" ELSE "deactivated"]
        /\ UNCHANGED <<now, lruVars, kind, initialized, cacheVars, global_set,
                       db_guild_settings, db_user_settings, db_dict, listenerVars,
                       listener_task, taskVars, db_users,
                   orphan_connections, voiceVars>>

\* the transaction is rolled back (the connection is lost, the call raises)
SlotRollback(w) ==
    /\ slot_txns[w] # NoSlotTxn
    /\ slot_txns' = [slot_txns EXCEPT ![w] = NoSlotTxn]
    /\ last' = [Op("slot_rollback", slot_txns[w].user, slot_txns[w].guild, None)
                    EXCEPT !.ok = FALSE]
    /\ UNCHANGED <<now, lruVars, kind, initialized, cacheVars, dbVars, notifications,
                   global_set, listenerVars, listener_task, taskVars, db_users, db_boost_rows,
                   orphan_connections, voiceVars>>

NextSlots ==
    \/ \E w \in Writers, u \in Users, g \in Guilds : ActivateLock(w, u, g)
    \/ \E w \in Writers : ActivateInsert(w)
    \/ \E w \in Writers, u \in Users, g \in Guilds : DeactivateDelete(w, u, g)
    \/ \E w \in Writers : SlotCommit(w)
    \/ \E w \in Writers : SlotRollback(w)
    \/ \E fail \in BOOLEAN : HandleNotification(fail)

SpecSlots == InitSlots /\ [][NextSlots]_vars

\* the rows of u, committed or inserted by an open transaction
RowsOf(u) ==
    OwnedRows(u)
    + Cardinality({w \in Writers : slot_txns[w].pc = "inserted" /\ slot_txns[w].user = u})

\* C23: in every interleaving of activate_guild_boost and
\* deactivate_guild_boost no user owns more boost rows than total_slots; an
\* activation for an unknown user or a user without a free slot returns False
\* and inserts nothing; a deactivation that succeeds removes exactly one row
\* of its user and guild and frees exactly one slot
C23_SlotsNeverExceeded ==
    [][/\ \A u \in Users : RowsOf(u)' <= (IF db_users[u] = None THEN 0 ELSE db_users[u])
       /\ (\/ last'.op = "activate_lock" /\ db_users[last'.id] = None
           \/ last'.op = "activate" /\ OwnedRows(last'.id) >= db_users[last'.id])
              => /\ last'.result = 0
                 /\ \A w \in Writers : slot_txns'[w].pc = "inserted" => slot_txns[w].pc = "inserted"
                 /\ db_boost_rows' = db_boost_rows
       /\ (last'.op = "slot_commit" /\ last'.tag = "deactivated")
              => /\ db_boost_rows' = [db_boost_rows EXCEPT ![last'.id][last'.value] = @ - 1]
                 /\ SumOver(db_boost_rows'[last'.id], Guilds) = OwnedRows(last'.id) - 1
                 /\ OwnedRows(last'.id) >= 1]_vars

\* a user whose slots are all used, refused while another call of the same
\* user is undoing a boost
C23_Witness ==
    /\ last.op = "activate" /\ last.tag = "no_free_slot"
    /\ db_users[last.id] = MaxSlots
    /\ \E w \in Writers : slot_txns[w].pc = "deleted" /\ slot_txns[w].user = last.id


\* ------------------------------------------------------- notification handler tasks
\* _on_notification creates one task per payload, in arrival order;
\* notifications holds the payloads whose task has not entered
\* _notification_lock yet, handlers the payloads whose task is inside it,
\* suspended at the fetch of _reload_dict
MaxQueued == 2

InitHandlers ==
    /\ Init
    /\ kind \in {"guild_settings", "user_settings", "dict"}

\* the handler of n awaits storage while it holds the lock
Suspends(n) == n.table = "dict" /\ n.id = global_dict_id /\ n.operation # "DELETE"

\* asyncio.Lock: free when no task is inside `async with self._notification_lock`
lock_free(running) == running = <<>>

\* a lock that wakes the task that came last
next_handler_newest(queue) == Len(queue)

\* the task that enters the lock next: tasks start in creation order and
\* asyncio.Lock wakes its waiters first come, first served
next_handler(queue) == 1

\* the queue without its i-th payload
RemoveAt(queue, i) == SubSeq(queue, 1, i - 1) \o SubSeq(queue, i + 1, Len(queue))

\* a task enters the lock; a handler that awaits nothing but the cache runs
\* to its end and leaves the lock in the same step
HandlerStart ==
    LET i == next_handler(notifications)
        n == notifications[i]
        after == IF Suspends(n)
                 THEN <<guild_settings, user_settings, boost_counts, dictionaries, global_dict>>
                 ELSE handle_notification(n, FALSE)
    IN  /\ initialized
        /\ notifications # <<>>
        /\ lock_free(handlers)
        /\ notifications' = RemoveAt(notifications, i)
        /\ handlers' = IF Suspends(n) THEN Append(handlers, n) ELSE handlers
        /\ guild_settings' = after[1]
        /\ user_settings' = after[2]
        /\ boost_counts' = after[3]
        /\ dictionaries' = after[4]
        /\ global_dict' = after[5]
        /\ global_set' = IF n.table = "dict" /\ n.id = global_dict_id /\ ~Suspends(n)
                         THEN after[5] ELSE global_set
        /\ last' = Follow([Op("handler_start", n.id, n.data, i) EXCEPT
                               !.tag = IF Suspends(n) THEN "suspended" ELSE "handled"])
        /\ UNCHANGED <<now, lruVars, listenerVars, kind, initialized, active_voice_guilds,
                       dbVars, listener_task, resync_pc, inflight, slotVars,
                   orphan_connections, voiceVars>>

\* the fetch of a suspended handler returns (fail: it raises), the handler
\* stores what it fetched and leaves the lock
HandlerFinish(fail) ==
    LET n == Head(handlers)
        after == handle_notification(n, fail)
    IN  /\ handlers # <<>>
        /\ handlers' = Tail(handlers)
        /\ guild_settings' = after[1]
        /\ user_settings' = after[2]
        /\ boost_counts' = after[3]
        /\ dictionaries' = after[4]
        /\ global_dict' = after[5]
        /\ global_set' = IF fail THEN global_set ELSE after[5]
        /\ last' = [DbOp("handler_finish", n.id, None, None, 1, TRUE) EXCEPT
                        !.tag = IF fail THEN "reload_failed" ELSE "reloaded"]
        /\ UNCHANGED <<now, lruVars, listenerVars, kind, initialized, active_voice_guilds,
                       dbVars, notifications, listener_task, resync_pc, inflight, slotVars,
                   orphan_connections, voiceVars>>

NextHandlers ==
    \/ LoadInitialData
    \/ \E id \in Guilds, v \in WritableSettings : ExternalSettingsWrite(id, v, MaxQueued)
    \/ \E g \in DictIds, d \in DictValues : ExternalDictWrite(g, d)
    \/ \E g \in DictIds : ExternalDictDelete(g)
    \/ HandlerStart
    \/ \E fail \in BOOLEAN : HandlerFinish(fail)

SpecHandlers == InitHandlers /\ [][NextHandlers]_vars

\* every delivered event has been handled and no handler is running
HandlersQuiet == initialized /\ notifications = <<>> /\ handlers = <<>>

\* the cached settings entries equal the stored rows
SettingsMatchStorage ==
    \A id \in Guilds :
        HasKey(CachedSettings, id) =>
            CachedSettings[IndexOf(CachedSettings, id)].value = StoredSettings[id]

\* C28: at most one notification handler is inside the lock at a time, the
\* handler that starts is the one of the payload that arrived first, and so,
\* once the events of the writes to a key have all been handled, the cache
\* holds what the last of them carried (the stored row), never an earlier one
C28_HandlersInArrivalOrder ==
    [][/\ Len(handlers') <= 1
       /\ last'.op = "handler_start" =>
              (handlers = <<>> /\ notifications' = Tail(notifications))
       /\ (HandlersQuiet' /\ kind \in {"guild_settings", "user_settings"})
              => SettingsMatchStorage']_vars

\* two events of one guild with different settings were handled one after the
\* other, nothing is pending, and the cache holds the value of the second
C28_Witness ==
    /\ last.op = "handler_start" /\ kind = "guild_settings"
    /\ last.tag = "handled" /\ last.follows = "handled"
    /\ HandlersQuiet
    /\ last.prev # last.value
    /\ HasKey(guild_settings, last.id)
    /\ guild_settings[IndexOf(guild_settings, last.id)].value = last.value


\* ------------------------------------------------- dictionary calls as tasks
\* load_guild_dict, get_dict and add_or_update_dict await a storage round trip
\* and then write the cache; the voice commands start them, and
\* unload_guild_dict, as tasks of their own, so another task can run while one
\* of them is suspended in the round trip.  unload_guild_dict only takes locks
\* that are never held across an await and runs without suspending.  inflight["load"], inflight["get"]
\* and inflight["set"] hold the guild and the row of the suspended call.
InitDictTasks ==
    /\ Init
    /\ kind = "dict"

\* load_guild_dict up to its fetchrow: the guild joins the active set, a loaded
\* dictionary ends the call (fail: the fetch raises)
LoadFetch(g, fail) ==
    LET loaded == is_dict_loaded(dictionaries, global_dict, g, now)
    IN  /\ initialized /\ kind = "dict"
        /\ inflight["load"] = NoCall
        /\ (fail => ~loaded)
        /\ active_voice_guilds' = active_voice_guilds \cup {g}
        /\ dictionaries' = IF loaded THEN is_dict_loaded_data(dictionaries, g, now)
                           ELSE dictionaries
        /\ inflight' = [inflight EXCEPT !["load"] =
                            IF loaded \/ fail THEN NoCall
                            ELSE [NoCall EXCEPT !.id = g, !.value = db_dict[g]]]
        /\ last' = [DbOp("load_fetch", g, None, IF loaded \/ fail THEN None ELSE db_dict[g],
                         IF loaded THEN 0 ELSE 1, ~fail)
                    EXCEPT !.tag = IF loaded THEN "already_loaded"
                                   ELSE IF fail THEN "storage_error" ELSE "load_fetch"]
        /\ UNCHANGED <<now, lruVars, listenerVars, kind, initialized, guild_settings,
                       user_settings, boost_counts, global_dict, dbVars, notifications,
                       global_set, listener_task, resync_pc, handlers, slotVars,
                   orphan_connections, voiceVars>>

\* the cache write of a load that resumes with the row it fetched
load_store(dicts, gdict, active, g, row, t) ==
    cache_set_dict(dicts, gdict, g, RowOrEmpty(row), t)

\* the load resumes and caches what it fetched
LoadStore ==
    LET call == inflight["load"]
        after == load_store(dictionaries, global_dict, active_voice_guilds,
                            call.id, call.value, now)
    IN  /\ call # NoCall
        /\ dictionaries' = after[1]
        /\ global_dict' = after[2]
        /\ inflight' = [inflight EXCEPT !["load"] = NoCall]
        /\ last' = [Op("load_store", call.id, RowOrEmpty(call.value), None)
                    EXCEPT !.tag = IF is_guild_active(active_voice_guilds, call.id)
                                   THEN "load_store" ELSE "load_store_inactive"]
        /\ UNCHANGED <<now, lruVars, listenerVars, kind, initialized, guild_settings,
                       user_settings, boost_counts, active_voice_guilds, dbVars, notifications,
                       global_set, listener_task, resync_pc, handlers, slotVars,
                   orphan_connections, voiceVars>>

\* get_dict of a guild up to its fetchrow (fail: the fetch raises); a cached
\* dictionary is returned without a fetch
DictGetFetch(g, fail) ==
    LET cached == cache_get_dict(dictionaries, global_dict, g, now)
    IN  /\ initialized /\ kind = "dict"
        /\ inflight["get"] = NoCall
        /\ (fail => cached = None)
        /\ dictionaries' = cache_get_dict_data(dictionaries, g, now)
        /\ inflight' = [inflight EXCEPT !["get"] =
                            IF cached # None \/ fail THEN NoCall
                            ELSE [NoCall EXCEPT !.id = g, !.value = db_dict[g]]]
        /\ last' = [DbOp("dict_get_fetch", g, None,
                         IF cached # None THEN cached ELSE IF fail THEN None ELSE db_dict[g],
                         IF cached # None THEN 0 ELSE 1, ~fail)
                    EXCEPT !.tag = IF cached # None THEN "cached"
                                   ELSE IF fail THEN "storage_error" ELSE "dict_get_fetch"]
        /\ UNCHANGED <<now, lruVars, listenerVars, kind, initialized, guild_settings,
                       user_settings, boost_counts, global_dict, active_voice_guilds, dbVars,
                       notifications, global_set, listener_task, resync_pc, handlers, slotVars,
                   orphan_connections, voiceVars>>

\* the cache write of a get that resumes with the row it fetched: a row is
\* cached for a guild that is active now or for the global dictionary
dict_get_store(dicts, gdict, active, g, row, t) ==
    IF row # None /\ (is_guild_active(active, g) \/ g = global_dict_id)
    THEN cache_set_dict(dicts, gdict, g, row, t)
    ELSE <<dicts, gdict>>

\* the get resumes: result is what it returns
DictGetStore ==
    LET call == inflight["get"]
        after == dict_get_store(dictionaries, global_dict, active_voice_guilds,
                                call.id, call.value, now)
    IN  /\ call # NoCall
        /\ kind = "dict"
        /\ dictionaries' = after[1]
        /\ global_dict' = after[2]
        /\ inflight' = [inflight EXCEPT !["get"] = NoCall]
        /\ last' = [Op("dict_get_store", call.id, call.value, RowOrEmpty(call.value))
                    EXCEPT !.tag = IF after[1] # dictionaries THEN "get_cached_row"
                                   ELSE "get_not_cached"]
        /\ UNCHANGED <<now, lruVars, listenerVars, kind, initialized, guild_settings,
                       user_settings, boost_counts, active_voice_guilds, dbVars, notifications,
                       global_set, listener_task, resync_pc, handlers, slotVars,
                   orphan_connections, voiceVars>>

\* add_or_update_dict up to the end of its INSERT ... ON CONFLICT, which commits
\* and notifies (fail: the statement raises)
DictSetExecute(g, d, fail) ==
    /\ initialized /\ kind = "dict"
    /\ inflight["set"] = NoCall
    /\ CanDeliver(MaxPending)
    /\ db_dict' = IF fail THEN db_dict ELSE [db_dict EXCEPT ![g] = d]
    /\ notifications' = IF fail THEN notifications
                        ELSE Deliver(notifications,
                                     Notification("dict", UpsertOp(db_dict[g]), g, None))
    /\ inflight' = [inflight EXCEPT !["set"] =
                        IF fail THEN NoCall ELSE [NoCall EXCEPT !.id = g, !.value = d]]
    /\ last' = [DbOp("dict_set_execute", g, d, None, 0, ~fail)
                EXCEPT !.tag = IF fail THEN "storage_error" ELSE "dict_set_execute"]
    /\ UNCHANGED <<now, lruVars, listenerVars, kind, initialized, cacheVars, db_guild_settings,
                   db_user_settings, db_guild_boosts, global_set, listener_task, resync_pc,
                   handlers, slotVars,
                   orphan_connections, voiceVars>>

\* the add_or_update_dict resumes and writes through for a guild active now
DictSetStore ==
    LET call == inflight["set"]
        after == add_or_update_dict_cache(dictionaries, global_dict, active_voice_guilds,
                                          call.id, call.value, TRUE, now)
    IN  /\ call # NoCall
        /\ kind = "dict"
        /\ dictionaries' = after[1]
        /\ global_dict' = after[2]
        /\ inflight' = [inflight EXCEPT !["set"] = NoCall]
        /\ last' = [Op("dict_set_store", call.id, call.value, None)
                    EXCEPT !.tag = IF after[1] # dictionaries THEN "written_through"
                                   ELSE "not_written_through"]
        /\ UNCHANGED <<now, lruVars, listenerVars, kind, initialized, guild_settings,
                       user_settings, boost_counts, active_voice_guilds, dbVars, notifications,
                       global_set, listener_task, resync_pc, handlers, slotVars,
                   orphan_connections, voiceVars>>

NextDictTasks ==
    \/ LoadInitialData
    \/ \E g \in DictGuilds, fail \in BOOLEAN : LoadFetch(g, fail)
    \/ LoadStore
    \/ \E g \in DictGuilds : UnloadGuildDict(g)
    \/ \E g \in DictGuilds, fail \in BOOLEAN : DictGetFetch(g, fail)
    \/ DictGetStore
    \/ \E g \in DictGuilds, d \in DictValues, fail \in BOOLEAN : DictSetExecute(g, d, fail)
    \/ DictSetStore
    \/ \E g \in DictGuilds, d \in DictValues : ExternalDictWrite(g, d)
    \/ \E fail \in BOOLEAN : HandleNotification(fail)

SpecDictTasks == InitDictTasks /\ [][NextDictTasks]_vars

\* no load, get or add_or_update is suspended
NoDictCallInFlight ==
    /\ inflight["load"] = NoCall /\ inflight["get"] = NoCall /\ inflight["set"] = NoCall

\* C31: under any interleaving of load_guild_dict, unload_guild_dict, get_dict
\* and add_or_update_dict, once no operation is in flight every non-global
\* dictionary in the dictionary cache belongs to a guild of the active set (a
\* load overlapped by an unload leaves nothing cached for that guild)
C31_CachedDictsAreActive ==
    NoDictCallInFlight =>
        \A g \in DictGuilds : HasKey(dictionaries, g) => g \in active_voice_guilds


\* ----------------------------------------------------- reconnect under fairness
\* the steps of the keep-alive task: the event loop resumes a task whose await
\* has completed, and every await of the task (sleep, connect, fetch) returns
\* or raises in the end
KeepAliveStep ==
    \/ HealthCheck
    \/ ReconnectBegin
    \/ \E cfail, lfail, afail \in BOOLEAN : ConnectDone(cfail, lfail, afail)
    \/ \E fail \in BOOLEAN : ResyncFetchDict(fail)
    \/ ResyncStoreDict
    \/ \E fail \in BOOLEAN : ResyncGlobal(fail)
    \/ \E fail \in BOOLEAN : ResyncBoosts(fail)
    \/ ReconnectBackoff
    \/ ReconnectGiveUp

NextReconnect ==
    \/ KeepAliveStep
    \/ ConnectionDrop
    \/ Close
    \/ \E g \in DictGuilds, fail \in BOOLEAN : LoadGuildDict(g, fail)

SpecReconnectFair == InitResync /\ [][NextReconnect]_vars /\ WF_vars(KeepAliveStep)

\* a fetch of the pass raised, which ends the attempt
PassFailed == last.tag \in {"global_fetch_failed", "boost_fetch_failed"}

\* C32: after a drop, when a connection attempt succeeds and storage is
\* readable, the listener is eventually flagged healthy with the retry counter
\* back at 0 unless the database is closed meanwhile; the flag is raised only
\* by the step that completes a resync pass on the new connection
C32_ReconnectRestoresHealth ==
    /\ [][(~listener_healthy /\ listener_healthy') =>
              (last'.tag = "resynced" /\ cache_version' > 0)]_vars
    /\ (last.tag = "connected" /\ ~shutdown)
          ~> ((listener_healthy /\ reconnect_attempts = 0) \/ shutdown \/ PassFailed)

\* a pass completed on a new connection: healthy again, counter at 0
C32_Witness ==
    /\ last.tag = "resynced"
    /\ ~shutdown /\ ~reconnecting
    /\ listener_healthy /\ reconnect_attempts = 0
    /\ cache_version > 0

\* C35: whenever no reconnect is in progress and the listener connection is
\* open with the callback registered, the listener is flagged healthy (the flag
\* is raised only by a completed resync pass on that connection); no connection
\* is left delivering events while flagged unhealthy, also when the retry
\* budget runs out
C35_OpenConnectionIsHealthy ==
    (initialized /\ ~reconnecting /\ listener_connection = "open") => listener_healthy

\* C36: at most one listener connection is open at any time: no connection
\* that _start_listener or a reconnect attempt opened stays open once it is no
\* longer the current listener connection, whatever fails (connect,
\* add_listener, the resync pass)
C36_NoOrphanConnection ==
    orphan_connections = 0

\* a new connection has been opened by an attempt that found the connection of
\* the attempt before still open (its add_listener or its resync had failed)
C36_Witness ==
    /\ last.op = "connect" /\ last.tag \in {"connected", "acquire_failed", "add_listener_failed"}
    /\ last.follows = "closed_old_connection"
    /\ listener_connection \in LiveConnections
    /\ orphan_connections = 0


\* ------------------------------------------- dictionary writes, reads, events
\* add_or_update_dict here and in other processes, read-through get_dict and
\* the dictionary events, for a guild whose load has completed
NextDictSync ==
    \/ LoadInitialData
    \/ \E g \in DictGuilds, fail \in BOOLEAN : LoadGuildDict(g, fail)
    \/ \E g \in DictGuilds, fail \in BOOLEAN : DictGetFetch(g, fail)
    \/ DictGetStore
    \/ \E g \in DictGuilds, d \in DictValues, fail \in BOOLEAN : DictSetExecute(g, d, fail)
    \/ DictSetStore
    \/ \E g \in DictGuilds, d \in DictValues : ExternalDictWrite(g, d)
    \/ \E fail \in BOOLEAN : HandleNotification(fail)

SpecDictSync == InitDictTasks /\ [][NextDictSync]_vars

\* the listener is healthy, no get_dict or add_or_update_dict is suspended and
\* every delivered event has been handled
DictQuiescent ==
    /\ initialized
    /\ listener_connection = "open" /\ listener_healthy
    /\ NoDictCallInFlight
    /\ notifications = <<>>

\* C34: with a healthy listener, once the add_or_update_dict calls (local and
\* of other processes), the read-through get_dict misses and the dictionary
\* events have all completed, the cached dictionary of an active guild is
\* absent or equal to the dictionary row in storage
C34_DictConverges ==
    DictQuiescent =>
        \A g \in DictGuilds \cap active_voice_guilds :
            CachedDict(g) \in {None, RowOrEmpty(db_dict[g])}


\* ------------------------------------------------ callers and cached objects
\* LRUCache.get returns entry.value itself, and Database.get_user_setting and
\* get_dict hand that object (or the object they have just stored) to the
\* caller: an assignment the caller makes to a key of it changes the cached
\* entry.  The speed and pitch of a profile are folded into its number: p in
\* Profiles is speaker p with the stored speed and pitch, p + |Profiles| the
\* same speaker with speed 1.0 and pitch 0.0.
InitCallers ==
    /\ Init
    /\ kind \in {"user_settings", "dict"}

\* s["speed"] = 1.0; s["pitch"] = 0.0
forced_speed_pitch(profile) ==
    IF profile \in Profiles THEN profile + Cardinality(Profiles) ELSE profile

\* the entries after an in-place change of the object cached for k: the entry
\* and its timestamps stay, its value is v
mutate_cached_value(data, k, v) ==
    [i \in 1..Len(data) |-> IF data[i].key = k THEN [data[i] EXCEPT !.value = v] ELSE data[i]]

\* Voice._generate_audio up to the forced speed and pitch: the profile is read
\* through get_user_setting (fail: the fetch raises and a fresh default is
\* used); for a guild without boost the received dict is overwritten
\* value: what was cached before, result: the profile the audio is made with
GenerateAudio(u, boosted, fail) ==
    LET cached == lru_get_value(user_settings, u, USER_SETTINGS_TTL, now)
        row == db_user_settings[u]
        raises == cached = None /\ fail
        got == get_user_setting_cache(user_settings, u, row, fail, now)
        s == IF cached # None THEN cached
             ELSE IF raises \/ row = None THEN DefaultSpeaker ELSE row
        \* the dict the caller holds is the one the cache holds
        aliased == ~raises /\ (cached # None \/ row # None) /\ HasKey(got, u)
        used == IF boosted THEN s ELSE forced_speed_pitch(s)
    IN  /\ initialized /\ kind = "user_settings"
        /\ (fail => cached = None)
        /\ user_settings' = IF aliased THEN mutate_cached_value(got, u, used) ELSE got
        /\ last' = [DbOp("generate_audio", u, cached, used, IF cached = None THEN 1 ELSE 0, TRUE)
                    EXCEPT !.tag = IF boosted THEN "boosted" ELSE "unboosted"]
        /\ UNCHANGED <<now, lruVars, listenerVars, kind, initialized, guild_settings,
                       boost_counts, dictionaries, global_dict, active_voice_guilds, dbVars,
                       notifications, global_set, extVars>>

\* Voice.dictionary, actions add and delete: the mapping is read through
\* get_dict, edited in place to d and persisted with add_or_update_dict
\* (fail: the storage write raises)
DictionaryEdit(g, d, fail) ==
    LET cached == cache_get_dict(dictionaries, global_dict, g, now)
        row == db_dict[g]
        got == get_dict_cache(dictionaries, global_dict, active_voice_guilds, g, row, FALSE, now)
        aliased == cached # None \/ (row # None /\ HasKey(got[1], g))
        edited == IF aliased THEN mutate_cached_value(got[1], g, d) ELSE got[1]
        after == add_or_update_dict_cache(edited, got[2], active_voice_guilds, g, d, ~fail, now)
    IN  /\ initialized /\ kind = "dict"
        /\ g # global_dict_id
        /\ CanDeliver(MaxPending)
        /\ db_dict' = IF fail THEN db_dict ELSE [db_dict EXCEPT ![g] = d]
        /\ notifications' = IF fail THEN notifications
                            ELSE Deliver(notifications,
                                         Notification("dict", UpsertOp(db_dict[g]), g, None))
        /\ dictionaries' = after[1]
        /\ global_dict' = after[2]
        /\ last' = [DbOp("dictionary_edit", g, d, cached, IF cached = None THEN 1 ELSE 0, ~fail)
                    EXCEPT !.tag = IF fail THEN "storage_error" ELSE "dictionary_edit"]
        /\ UNCHANGED <<now, lruVars, listenerVars, kind, initialized, guild_settings,
                       user_settings, boost_counts, active_voice_guilds, db_guild_settings,
                       db_user_settings, db_guild_boosts, global_set, extVars>>

NextCallers ==
    \/ LoadInitialData
    \/ \E u \in Users, boosted, fail \in BOOLEAN : GenerateAudio(u, boosted, fail)
    \/ \E u \in Users, fail \in BOOLEAN : GetUserSetting(u, fail)
    \/ \E u \in Users, data \in Profiles, fail \in BOOLEAN : SetUserSetting(u, data, fail)
    \/ \E g \in DictGuilds, d \in DictValues, fail \in BOOLEAN : DictionaryEdit(g, d, fail)
    \/ \E g \in DictGuilds, fail \in BOOLEAN : GetDict(g, fail)
    \/ \E g \in DictGuilds, fail \in BOOLEAN : LoadGuildDict(g, fail)
    \/ \E fail \in BOOLEAN : HandleNotification(fail)

SpecCallers == InitCallers /\ [][NextCallers]_vars

\* C37: a cached value changes only through the cache's set and delete: after
\* audio generation the profile cached for the author is the one cached
\* before or the stored row the read-through put there (or none), and after a
\* dictionary command whose storage write failed the cached dictionary is the
\* one cached before or the stored row (or none)
C37_CallersDoNotChangeCache ==
    [][/\ last'.op = "generate_audio"
          => lru_get_value(user_settings', last'.id, USER_SETTINGS_TTL, now')
                \in {None, last'.value, db_user_settings[last'.id]}
       /\ (last'.op = "dictionary_edit" /\ ~last'.ok)
          => cache_get_dict(dictionaries', global_dict', last'.id, now')
                \in {None, last'.result, db_dict[last'.id]}]_vars


\* ------------------------------------------------------------ playback queue
\* Voice.enqueue_message and Voice.play_next for one guild.  enqueue_message
\* does not suspend (the queue is unbounded); asyncio.create_task only
\* schedules play_next, which runs later.  A play_next task is a record: pc is
\* "created" (scheduled, not started), "fetch" (awaiting bot.fetch_guild) or
\* "playing" (awaiting _play_audio_task of item).
MaxMessages == 3
MaxPlayTasks == 2

PlayTask(pc, item) == [pc |-> pc, item |-> item]

InitVoice ==
    /\ Init
    /\ kind = "user_settings"
    /\ db_user_settings = [u \in Users |-> None]

\* enqueue_message: the AudioTask is put on the queue, and a play_next task is
\* created when is_processing is False
EnqueueMessage ==
    /\ enqueued < MaxMessages
    /\ ~is_processing => Len(play_tasks) < MaxPlayTasks
    /\ enqueued' = enqueued + 1
    /\ queues' = Append(queues, enqueued + 1)
    /\ play_tasks' = IF ~is_processing THEN Append(play_tasks, PlayTask("created", None))
                     ELSE play_tasks
    /\ last' = [Op("enqueue_message", None, enqueued + 1, None) EXCEPT
                    !.tag = IF is_processing THEN "consumer_running" ELSE "consumer_created"]
    /\ UNCHANGED <<now, lruVars, kind, initialized, cacheVars, dbVars, notifications, global_set,
                   listenerVars, listener_task, taskVars, slotVars, orphan_connections,
                   is_processing, dequeued>>

\* the tasks without task i
WithoutTask(tasks, i) == [j \in 1..(Len(tasks) - 1) |-> IF j < i THEN tasks[j] ELSE tasks[j + 1]]

\* `while not queue.empty()` of play_next for task i, up to its next await or
\* its end: the oldest AudioTask is taken and played; on an empty queue the
\* loop ends and the finally clause clears is_processing
ConsumerLoop(i, name) ==
    /\ IF queues = <<>>
       THEN /\ play_tasks' = WithoutTask(play_tasks, i)
            /\ is_processing' = FALSE
            /\ UNCHANGED <<queues, dequeued>>
            /\ last' = [Op(name, None, None, None) EXCEPT !.tag = "consumer_ended"]
       ELSE /\ play_tasks' = [play_tasks EXCEPT ![i] = PlayTask("playing", Head(queues))]
            /\ is_processing' = TRUE
            /\ queues' = Tail(queues)
            /\ dequeued' = Append(dequeued, Head(queues))
            /\ last' = [Op(name, None, Head(queues), None) EXCEPT !.tag = "playing"]

\* the oldest created task is started by the event loop
first_created(tasks) ==
    CHOOSE i \in 1..Len(tasks) :
        tasks[i].pc = "created" /\ \A j \in 1..(i - 1) : tasks[j].pc # "created"

\* play_next from its first statement: is_processing is set, the guild is
\* taken from the cache (resolved) or fetch_guild is awaited
PlayNextStart(resolved) ==
    /\ \E i \in 1..Len(play_tasks) : play_tasks[i].pc = "created"
    /\ LET i == first_created(play_tasks)
       IN  IF resolved
           THEN ConsumerLoop(i, "play_next")
           ELSE /\ play_tasks' = [play_tasks EXCEPT ![i] = PlayTask("fetch", None)]
                /\ is_processing' = TRUE
                /\ UNCHANGED <<queues, dequeued>>
                /\ last' = [Op("play_next", None, None, None) EXCEPT !.tag = "fetch_guild"]
    /\ UNCHANGED <<now, lruVars, kind, initialized, cacheVars, dbVars, notifications, global_set,
                   listenerVars, listener_task, taskVars, slotVars, orphan_connections, enqueued>>

\* is_processing once fetch_guild has raised out of play_next
flag_after_failed_fetch(flag) == flag

\* fetch_guild returns, or raises (fail) and ends the task before its try
FetchGuildDone(i, fail) ==
    /\ i \in 1..Len(play_tasks) /\ play_tasks[i].pc = "fetch"
    /\ IF fail
       THEN /\ play_tasks' = WithoutTask(play_tasks, i)
            /\ is_processing' = flag_after_failed_fetch(is_processing)
            /\ UNCHANGED <<queues, dequeued>>
            /\ last' = [Op("fetch_guild", None, None, None) EXCEPT
                            !.ok = FALSE, !.tag = "fetch_failed"]
       ELSE ConsumerLoop(i, "fetch_guild")
    /\ UNCHANGED <<now, lruVars, kind, initialized, cacheVars, dbVars, notifications, global_set,
                   listenerVars, listener_task, taskVars, slotVars, orphan_connections, enqueued>>

\* _play_audio_task of task i returns or raises; task_done and the cleanup of
\* the temporary file follow, then the loop goes on
PlayDone(i) ==
    /\ i \in 1..Len(play_tasks) /\ play_tasks[i].pc = "playing"
    /\ ConsumerLoop(i, "play_done")
    /\ UNCHANGED <<now, lruVars, kind, initialized, cacheVars, dbVars, notifications, global_set,
                   listenerVars, listener_task, taskVars, slotVars, orphan_connections, enqueued>>

\* the steps of the play_next tasks
PlayStep ==
    \/ \E resolved \in BOOLEAN : PlayNextStart(resolved)
    \/ \E i \in 1..MaxPlayTasks, fail \in BOOLEAN : FetchGuildDone(i, fail)
    \/ \E i \in 1..MaxPlayTasks : PlayDone(i)

NextVoice ==
    \/ EnqueueMessage
    \/ PlayStep

SpecVoice == InitVoice /\ [][NextVoice]_vars

\* the event loop runs every task that is ready, and playback and fetch_guild
\* return or raise in the end
SpecVoiceFair == SpecVoice /\ WF_vars(PlayStep)

\* the play_next tasks that have started and not ended
RunningConsumers == {i \in 1..Len(play_tasks) : play_tasks[i].pc # "created"}

\* C38: at most one play_next consumer of a guild runs at any time, so its
\* audio tasks are played one at a time, in the order they were queued
C38_OneConsumer ==
    /\ Cardinality(RunningConsumers) <= 1
    /\ Cardinality({i \in 1..Len(play_tasks) : play_tasks[i].pc = "playing"}) <= 1
    /\ \A i, j \in 1..Len(dequeued) : i < j => dequeued[i] < dequeued[j]

\* C39: is_processing is True only while a play_next consumer runs (it is
\* False whenever play_next has ended, also when the guild could not be
\* resolved), and under fair scheduling every audio task put on the queue is
\* eventually dequeued
C39_FlagFollowsConsumer ==
    /\ [](is_processing => RunningConsumers # {})
    /\ \A m \in 1..MaxMessages : (enqueued >= m) ~> (\E k \in 1..Len(dequeued) : dequeued[k] = m)


\* ------------------------------------------------------- boosts of one guild
\* the rows of guild g, committed or inserted by an open transaction
GuildRows(g) ==
    db_guild_boosts[g]
    + Cardinality({w \in Writers : slot_txns[w].pc = "inserted" /\ slot_txns[w].guild = g})

\* C40: in every interleaving of activate_guild_boost calls of different
\* users for one guild, the guild never holds more boost rows than there are
\* active bot instances (max_boosts), and an activation for a guild that is at
\* that maximum returns False and inserts nothing
C40_GuildMaximumKept ==
    [][/\ \A g \in Guilds : GuildRows(g)' <= max_boosts
       /\ (last'.op = "activate" /\ db_guild_boosts[last'.value] >= max_boosts)
              => /\ last'.result = 0
                 /\ \A w \in Writers : slot_txns'[w].pc = "inserted" => slot_txns[w].pc = "inserted"
                 /\ db_boost_rows' = db_boost_rows]_vars

====
